---- MODULE Spec2Model ----
(***************************************************************************)
(* Model of the GRISERA mongo services: the scenario ordering subsystem    *)
(* (scenario_service_mongodb.py), the activity execution service           *)
(* (activity_execution_service_mongodb.py) and the generic service mixin   *)
(* (service_mixins.py).  One dataset is modelled; its contents are the     *)
(* variable db.  Every service method is a pure operator from a database   *)
(* to a record [db |-> database afterwards, ret |-> returned value]; the   *)
(* actions apply one whole method to db and name it in last.               *)
(***************************************************************************)
EXTENDS Integers, Sequences, FiniteSets, TLC

VARIABLES db, last

vars == <<db, last>>

(***************************************************************************)
(* Bounds of the model.                                                    *)
(***************************************************************************)
\* activity executions created in one run
MaxExecutions == 3
\* scenario documents created in one run
MaxScenarios == 2
\* activity-execution payloads carried by one save_scenario request
MaxPayloads == 2
\* unset (null) ids, left by failed creations, kept in all sequences together
MaxNulls == 1
\* executions deleted through the activity execution service in one run
MaxDeleted == 1
\* measures created in one run
MaxMeasures == 1
\* largest traversal depth of a read request
MaxDepth == 2

(***************************************************************************)
(* Identifiers.  Storage assigns identifiers that are unique over all      *)
(* collections; an identifier is a pair <<collection, number>>.            *)
(***************************************************************************)
None == <<"None", 0>>

ExperimentIds == {<<"experiment", 1>>}

ActivityIds == {<<"activity", 1>>}

ArrangementIds == {<<"arrangement", 1>>}

MeasureNameIds == {<<"measure_name", 1>>}

MeasureId(n) == <<"measure", n>>

\* a well-formed identifier that no document carries
UnknownId == <<"unknown", 1>>

ActivityExecutionId(n) == <<"activity_execution", n>>

ScenarioId(n) == <<"scenario", n>>

\* bson.ObjectId(id): ObjectId(None) generates a new identifier, which no
\* stored document carries; any other identifier converts to itself.
ObjectId(id) == IF id = None THEN <<"generated", 0>> ELSE id

(***************************************************************************)
(* Sequence helpers: Python list operations used by the scenario service.  *)
(***************************************************************************)
Range(s) == {s[i] : i \in 1..Len(s)}

\* list.index(x): 0-based index of the first occurrence; -1 stands for the
\* ValueError raised when x is not in the list
list_index(s, x) ==
    IF x \in Range(s)
    THEN (CHOOSE i \in 1..Len(s) : s[i] = x /\ \A j \in 1..(i - 1) : s[j] # x) - 1
    ELSE -1

\* list.insert(i, x) with 0-based index i, 0 <= i <= len
list_insert(s, i, x) == SubSeq(s, 1, i) \o <<x>> \o SubSeq(s, i + 1, Len(s))

\* list.remove(x): removes the first occurrence of x
list_remove(s, x) ==
    LET i == list_index(s, x)
    IN  IF i < 0 THEN s ELSE SubSeq(s, 1, i) \o SubSeq(s, i + 2, Len(s))

(***************************************************************************)
(* Result values.                                                          *)
(***************************************************************************)
NotFoundByIdModel(id) == [kind |-> "NotFoundByIdModel", id |-> id, errors |-> "not found"]

IsNotFound(r) == r.kind = "NotFoundByIdModel"

\* "x is None" for a fetched value: a model object or the NotFound sentinel
\* is never None
IsNone(r) == r.kind = "NoneType"

\* an output model (ActivityExecutionOut, ScenarioOut, OrderChangeOut) that
\* carries an error payload instead of the entity; its id is unset
ErrorOut(kind, message) == [kind |-> kind, id |-> None, errors |-> message]

HasErrors(r) == r.errors # ""

(***************************************************************************)
(* Collection names, also used as source (direction) tags.                 *)
(***************************************************************************)
Collections ==
    [ACTIVITY |-> "activities", ACTIVITY_EXECUTION |-> "activity_executions",
     ARRANGEMENT |-> "arrangements", EXPERIMENT |-> "experiments",
     PARTICIPATION |-> "participations", SCENARIO |-> "scenarios",
     MEASURE |-> "measures", MEASURE_NAME |-> "measure_names",
     TIME_SERIES |-> "time_series"]

(***************************************************************************)
(* Storage gateway (MongoApiService).  The documents of a collection are a *)
(* sequence, in creation order; d[collection_name] is that sequence.       *)
(***************************************************************************)
\* get_document(id, collection_name, dataset)
get_document(d, id, collection_name) ==
    LET docs == d[collection_name]
    IN  IF \E i \in 1..Len(docs) : docs[i].id = id
        THEN docs[CHOOSE i \in 1..Len(docs) : docs[i].id = id]
        ELSE NotFoundByIdModel(id)

\* get_documents(collection_name, dataset, {field: value}): a filter on a list
\* field matches the documents whose list contains the value
get_documents(d, collection_name, field, value) ==
    LET Matches(doc) ==
            IF field = "activity_executions"
            THEN value \in Range(doc.activity_executions)
            ELSE doc[field] = value
    IN  SelectSeq(d[collection_name], Matches)

\* get_documents(collection_name, dataset, {}): the empty filter matches every
\* document
get_all_documents(d, collection_name) == d[collection_name]

\* create_document_from_dict(scenario_dict, Collections.SCENARIO, dataset)
create_document_from_dict(d, scenario_dict) ==
    LET new_id == ScenarioId(Len(d.scenarios) + 1)
        doc == [id |-> new_id,
                experiment_id |-> scenario_dict.experiment_id,
                activity_executions |-> scenario_dict.activity_executions]
    IN  [db |-> [d EXCEPT !.scenarios = Append(@, doc)], ret |-> new_id]

\* update_document_with_dict(Collections.SCENARIO, id, scenario_dict, dataset)
update_document_with_dict(d, id, scenario_dict) ==
    [d EXCEPT !.scenarios =
        [i \in DOMAIN @ |-> IF @[i].id = id
                            THEN [id |-> id,
                                  experiment_id |-> scenario_dict.experiment_id,
                                  activity_executions |-> scenario_dict.activity_executions]
                            ELSE @[i]]]

(***************************************************************************)
(* Collaborator services: experiment, arrangement, activity.               *)
(***************************************************************************)
\* ExperimentService.get_experiment(experiment_id, dataset, depth, source)
get_experiment(d, experiment_id, depth, source) ==
    IF experiment_id \in d.experiments
    THEN [kind |-> "ExperimentOut", id |-> experiment_id, errors |-> "",
          depth |-> depth, source |-> source]
    ELSE NotFoundByIdModel(experiment_id)

\* ArrangementService.get_arrangement(arrangement_id, dataset)
get_arrangement(d, arrangement_id) ==
    IF arrangement_id \in d.arrangements
    THEN [kind |-> "ArrangementOut", id |-> arrangement_id, errors |-> ""]
    ELSE NotFoundByIdModel(arrangement_id)

\* ActivityService.get_activity(activity_id, dataset)
get_activity(d, activity_id) ==
    IF \E i \in 1..Len(d.activities) : d.activities[i].id = activity_id
    THEN [kind |-> "ActivityOut", id |-> activity_id, errors |-> ""]
    ELSE NotFoundByIdModel(activity_id)

ActivityExecutionOut(doc) ==
    [kind |-> "ActivityExecutionOut", id |-> doc.id, errors |-> "",
     activity_id |-> doc.activity_id, arrangement_id |-> doc.arrangement_id]

\* ActivityService.add_activity_execution(activity_execution, dataset): the
\* embedded-array insert into the owning activity document
activity_service_add_activity_execution(d, activity_execution) ==
    IF IsNotFound(get_activity(d, activity_execution.activity_id))
    THEN [db |-> d, ret |-> NotFoundByIdModel(activity_execution.activity_id)]
    ELSE LET doc == [id |-> ActivityExecutionId(d.next_id),
                     activity_id |-> activity_execution.activity_id,
                     arrangement_id |-> activity_execution.arrangement_id]
         IN  [db |-> [d EXCEPT
                        !.activities =
                            [i \in DOMAIN @ |->
                                IF @[i].id = activity_execution.activity_id
                                THEN [@[i] EXCEPT !.activity_executions = Append(@, doc)]
                                ELSE @[i]],
                        !.next_id = @ + 1],
              ret |-> ActivityExecutionOut(doc)]

\* ActivityService.remove_activity_execution(activity_execution, dataset):
\* removes the embedded element from its owning activity document
activity_service_remove_activity_execution(d, activity_execution) ==
    LET Keep(doc) == doc.id # activity_execution.id
    IN  [db |-> [d EXCEPT
                   !.activities =
                       [i \in DOMAIN @ |->
                           [@[i] EXCEPT !.activity_executions = SelectSeq(@, Keep)]]],
         ret |-> activity_execution]

\* ActivityService.get_multiple(dataset, {"activity_executions.id": id}, depth,
\* source, projection) with the $elemMatch projection: the activities that embed
\* an execution with this id, each projected to its first matching element
activity_service_get_multiple(d, id, depth, source) ==
    LET Is(doc) == doc.id = id
        Embeds(activity) == \E i \in 1..Len(activity.activity_executions) :
                                Is(activity.activity_executions[i])
        Project(activity) ==
            [id |-> activity.id,
             activity_executions |-> SubSeq(SelectSeq(activity.activity_executions, Is), 1, 1),
             depth |-> depth, source |-> source]
        found == SelectSeq(d.activities, Embeds)
    IN  [i \in 1..Len(found) |-> Project(found[i])]

\* ActivityService.get_multiple(dataset, {}, depth, source, projection) with
\* the projection of the empty query: every activity, with all its executions
activity_service_get_all(d, depth, source) ==
    [i \in 1..Len(d.activities) |->
        [id |-> d.activities[i].id,
         activity_executions |-> d.activities[i].activity_executions,
         depth |-> depth, source |-> source]]

\* ArrangementService.get_single_dict(arrangement_id, dataset, depth, source)
arrangement_service_get_single_dict(d, arrangement_id, depth, source) ==
    IF arrangement_id \in d.arrangements
    THEN [kind |-> "arrangement", id |-> arrangement_id, errors |-> "",
          depth |-> depth, source |-> source]
    ELSE NotFoundByIdModel(arrangement_id)

\* ParticipationService.get_multiple(dataset, {"activity_execution_id": id},
\* depth, source)
participation_service_get_multiple(d, activity_execution_id, depth, source) ==
    LET Refers(doc) == doc.activity_execution_id = activity_execution_id
        found == SelectSeq(d.participations, Refers)
    IN  [i \in 1..Len(found) |->
            [kind |-> "participation", id |-> found[i].id, errors |-> "",
             depth |-> depth, source |-> source]]

(***************************************************************************)
(* Reads.  A read returns [ret |-> the value returned to the caller,       *)
(* fetches |-> the related-entity fetches issued while expanding it, in    *)
(* call order, each with the depth and source it was requested with].      *)
(***************************************************************************)
Fetch(service, id, depth, source) ==
    [service |-> service, id |-> id, depth |-> depth, source |-> source]

RECURSIVE Flatten(_)
Flatten(seqs) == IF seqs = <<>> THEN <<>> ELSE Head(seqs) \o Flatten(Tail(seqs))

Max(a, b) == IF a >= b THEN a ELSE b

RECURSIVE get_activity_execution(_, _, _, _)

\* the result of one step of an expansion, after the steps before it
Join(acc, step) == [ret |-> step.ret, fetches |-> acc.fetches \o step.fetches]

\* the scenario with its id list replaced by the executions fetched for it
Hydrated(scenario, depth, source, got) ==
    [ret |-> [scenario EXCEPT !.activity_executions = [i \in 1..Len(got) |-> got[i].ret]],
     fetches |-> Flatten([i \in 1..Len(got) |->
                    <<Fetch(Collections.ACTIVITY_EXECUTION, scenario.activity_executions[i],
                            depth, source)>> \o got[i].fetches])]

\* ScenarioServiceMongoDB._change_ae_ids_to_objects
_change_ae_ids_to_objects(d, scenario, depth, source) ==
    Hydrated(scenario, depth, source,
             [i \in 1..Len(scenario.activity_executions) |->
                 get_activity_execution(d, scenario.activity_executions[i], depth, source)])

\* ScenarioServiceMongoDB._change_experiment_id_to_object
_change_experiment_id_to_object(d, scenario, depth, source) ==
    [ret |-> [experiment |-> get_experiment(d, scenario.experiment_id, depth, source)]
                @@ scenario,
     fetches |-> <<Fetch(Collections.EXPERIMENT, scenario.experiment_id, depth, source)>>]

\* the second step of _change_ids_to_objects, on the result of the first
AddExperimentTo(d, depth, aes) ==
    Join(aes, _change_experiment_id_to_object(d, aes.ret, depth, Collections.EXPERIMENT))

\* ScenarioServiceMongoDB._change_ids_to_objects
_change_ids_to_objects(d, scenario, depth) ==
    AddExperimentTo(d, Max(depth - 1, 0),
                    _change_ae_ids_to_objects(d, scenario, Max(depth - 1, 0),
                                              Collections.ACTIVITY_EXECUTION))

\* ScenarioOut(**scenario)
ScenarioOut(scenario) == [kind |-> "ScenarioOut", errors |-> ""] @@ scenario

\* GenericMongoServiceMixin.get_multiple on the scenario collection; the
\* scenario service's _add_related_documents hook does nothing
get_multiple(d, field, value) == get_documents(d, Collections.SCENARIO, field, value)

\* the value get_scenario_by_activity_execution returns for the scenarios the
\* query found; changed[s] is _change_ids_to_objects of the found scenario s
ScenariosFound(activity_execution_id, multiple, scenarios, changed) ==
    IF Len(scenarios) = 0
    THEN [ret |-> NotFoundByIdModel(activity_execution_id), fetches |-> <<>>]
    ELSE IF multiple
    THEN [ret |-> [kind |-> "list", errors |-> "",
                   items |-> [i \in 1..Len(scenarios) |->
                                 ScenarioOut(changed[scenarios[i]].ret)]],
          fetches |-> Flatten([i \in 1..Len(scenarios) |-> changed[scenarios[i]].fetches])]
    ELSE [ret |-> ScenarioOut(changed[scenarios[1]].ret),
          fetches |-> changed[scenarios[1]].fetches]

\* ScenarioServiceMongoDB.get_scenario_by_activity_execution
get_scenario_by_activity_execution(d, activity_execution_id, depth, multiple) ==
    ScenariosFound(activity_execution_id, multiple,
                   get_multiple(d, "activity_executions", activity_execution_id),
                   [s \in Range(get_multiple(d, "activity_executions", activity_execution_id))
                       |-> _change_ids_to_objects(d, s, depth)])

\* ScenarioServiceMongoDB.get_scenario_by_experiment
get_scenario_by_experiment(d, experiment_id, depth) ==
    ScenariosFound(experiment_id, FALSE,
                   get_multiple(d, "experiment_id", experiment_id),
                   [s \in Range(get_multiple(d, "experiment_id", experiment_id))
                       |-> _change_ids_to_objects(d, s, depth)])

\* ActivityExecutionServiceMongoDB._add_related_arrangement
_add_related_arrangement(d, activity_execution, depth, source) ==
    LET has_related_arrangement == activity_execution.arrangement_id # None
    IN  IF source # Collections.ARRANGEMENT /\ has_related_arrangement
        THEN [ret |-> [arrangement |->
                          arrangement_service_get_single_dict(
                              d, activity_execution.arrangement_id, depth - 1,
                              Collections.ACTIVITY_EXECUTION)] @@ activity_execution,
              fetches |-> <<Fetch(Collections.ARRANGEMENT, activity_execution.arrangement_id,
                                  depth - 1, Collections.ACTIVITY_EXECUTION)>>]
        ELSE [ret |-> activity_execution, fetches |-> <<>>]

\* the end of _add_related_experiments, on the scenarios the scenario service
\* returned
WithExperiments(activity_execution, fetch, related_scenarios) ==
    IF IsNotFound(related_scenarios.ret)
    THEN [ret |-> activity_execution, fetches |-> <<fetch>>]
    ELSE [ret |-> [experiments |->
                      [i \in 1..Len(related_scenarios.ret.items) |->
                          related_scenarios.ret.items[i].experiment]]
                  @@ activity_execution,
          fetches |-> <<fetch>> \o related_scenarios.fetches]

\* ActivityExecutionServiceMongoDB._add_related_experiments
_add_related_experiments(d, activity_execution, depth, source) ==
    IF depth <= 0 \/ source = Collections.EXPERIMENT
    THEN [ret |-> activity_execution, fetches |-> <<>>]
    ELSE WithExperiments(
             activity_execution,
             Fetch(Collections.SCENARIO, activity_execution.id, depth, ""),
             get_scenario_by_activity_execution(d, activity_execution.id, depth, TRUE))

\* ActivityExecutionServiceMongoDB._add_related_participations
_add_related_participations(d, activity_execution, depth, source) ==
    IF source # Collections.PARTICIPATION
    THEN [ret |-> [participations |->
                      participation_service_get_multiple(
                          d, activity_execution.id, depth - 1,
                          Collections.ACTIVITY_EXECUTION)] @@ activity_execution,
          fetches |-> <<Fetch(Collections.PARTICIPATION, activity_execution.id,
                              depth - 1, Collections.ACTIVITY_EXECUTION)>>]
    ELSE [ret |-> activity_execution, fetches |-> <<>>]

\* a variant of _add_activity that attaches the activity whatever the source
_add_activity_from_any_source(d, activity_execution, depth, source, activity) ==
    [activity |-> activity] @@ activity_execution

\* ActivityExecutionServiceMongoDB._add_activity
_add_activity(d, activity_execution, depth, source, activity) ==
    IF source # Collections.ACTIVITY
    THEN [activity |-> activity] @@ activity_execution
    ELSE activity_execution

\* the calls of _add_related_documents after the first, each on the dict the
\* calls before it have filled
ThenExperiments(d, depth, source, acc) ==
    Join(acc, _add_related_experiments(d, acc.ret, depth, source))

ThenParticipations(d, depth, source, acc) ==
    Join(acc, _add_related_participations(d, acc.ret, depth, source))

ThenActivity(d, depth, source, activity, acc) ==
    [ret |-> _add_activity(d, acc.ret, depth, source, activity), fetches |-> acc.fetches]

\* a variant of _add_related_documents without the depth check
activity_execution_add_related_documents_at_any_depth(d, execution, depth, source, activity) ==
    ThenActivity(d, depth, source, activity,
        ThenParticipations(d, depth, source,
            ThenExperiments(d, depth, source,
                _add_related_arrangement(d, execution, depth, source))))

\* ActivityExecutionServiceMongoDB._add_related_documents
activity_execution_add_related_documents(d, activity_execution, depth, source, activity) ==
    IF depth > 0
    THEN ThenActivity(d, depth, source, activity,
             ThenParticipations(d, depth, source,
                 ThenExperiments(d, depth, source,
                     _add_related_arrangement(d, activity_execution, depth, source))))
    ELSE [ret |-> activity_execution, fetches |-> <<>>]

\* ActivityExecutionServiceMongoDB.get_single_dict
activity_execution_get_single_dict(d, id, depth, source) ==
    LET activity_execution_object_id == ObjectId(id)
        activity_result ==
            activity_service_get_multiple(d, activity_execution_object_id, depth - 1,
                                          Collections.ACTIVITY_EXECUTION)
    IN  IF Len(activity_result) = 0 \/ Len(activity_result[1].activity_executions) = 0
        THEN [ret |-> NotFoundByIdModel(id), fetches |-> <<>>]
        ELSE LET related_activity ==
                     [id |-> activity_result[1].id, depth |-> activity_result[1].depth,
                      source |-> activity_result[1].source]
                 activity_execution_dict == activity_result[1].activity_executions[1]
             IN  activity_execution_add_related_documents(
                     d, activity_execution_dict, depth, source, related_activity)

\* the end of get_single: out_class(**result), unless the result is NotFound
AsModel(out_class, result) ==
    IF IsNotFound(result.ret @@ [kind |-> "dict"])
    THEN result
    ELSE [ret |-> [kind |-> out_class, errors |-> ""] @@ result.ret,
          fetches |-> result.fetches]

\* ActivityExecutionServiceMongoDB.get_single: ActivityExecutionOut(**result)
activity_execution_get_single(d, id, depth, source) ==
    AsModel("ActivityExecutionOut", activity_execution_get_single_dict(d, id, depth, source))

\* ActivityExecutionServiceMongoDB.get_activity_execution
get_activity_execution(d, activity_execution_id, depth, source) ==
    activity_execution_get_single(d, activity_execution_id, depth, source)

\* the loops of get_multiple over the activities found: each embedded
\* execution is expanded, with the activity that embeds it passed along
ExecutionsOf(d, depth, source, activity_results) ==
    LET expanded ==
            [i \in 1..Len(activity_results) |->
                [j \in 1..Len(activity_results[i].activity_executions) |->
                    activity_execution_add_related_documents(
                        d, activity_results[i].activity_executions[j], depth, source,
                        [id |-> activity_results[i].id,
                         depth |-> activity_results[i].depth,
                         source |-> activity_results[i].source])]]
    IN  [ret |-> Flatten([i \in 1..Len(expanded) |->
                    [j \in 1..Len(expanded[i]) |-> expanded[i][j].ret]]),
         fetches |-> Flatten([i \in 1..Len(expanded) |->
                        Flatten([j \in 1..Len(expanded[i]) |-> expanded[i][j].fetches])])]

\* ActivityExecutionServiceMongoDB.get_multiple, with the empty query
activity_execution_get_multiple(d, depth, source) ==
    ExecutionsOf(d, depth, source,
                 activity_service_get_all(d, depth - 1, Collections.ACTIVITY_EXECUTION))

(***************************************************************************)
(* The generic service mixin, used by the measure service, and the measure *)
(* service's expansion hook.                                               *)
(***************************************************************************)
\* MeasureNameService.get_measure_name(measure_name_id, dataset)
get_measure_name(d, measure_name_id) ==
    IF measure_name_id \in d.measure_names
    THEN [kind |-> "MeasureNameOut", id |-> measure_name_id, errors |-> ""]
    ELSE NotFoundByIdModel(measure_name_id)

\* MeasureNameService.get_single_dict(measure_name_id, dataset, depth, source)
measure_name_service_get_single_dict(d, measure_name_id, depth, source) ==
    IF measure_name_id \in d.measure_names
    THEN [kind |-> "measure_name", id |-> measure_name_id, errors |-> "",
          depth |-> depth, source |-> source]
    ELSE NotFoundByIdModel(measure_name_id)

\* TimeSeriesService.get_multiple(dataset, {"measure_id": id}, depth, source)
time_series_service_get_multiple(d, measure_id, depth, source) ==
    LET found == get_documents(d, Collections.TIME_SERIES, "measure_id", measure_id)
    IN  [i \in 1..Len(found) |->
            [kind |-> "time_series", id |-> found[i].id, errors |-> "",
             depth |-> depth, source |-> source]]

\* a variant of _add_related_time_series that attaches every time series
_add_related_time_series_unfiltered(d, measure, depth, source) ==
    IF source # Collections.TIME_SERIES
    THEN [ret |-> [time_series |->
                      [i \in 1..Len(d.time_series) |->
                          [kind |-> "time_series", id |-> d.time_series[i].id, errors |-> "",
                           depth |-> depth - 1, source |-> Collections.MEASURE]]] @@ measure,
          fetches |-> <<Fetch(Collections.TIME_SERIES, measure.id, depth - 1,
                              Collections.MEASURE)>>]
    ELSE [ret |-> measure, fetches |-> <<>>]

\* MeasureServiceMongoDB._add_related_time_series
_add_related_time_series(d, measure, depth, source) ==
    IF source # Collections.TIME_SERIES
    THEN [ret |-> [time_series |->
                      time_series_service_get_multiple(d, measure.id, depth - 1,
                                                       Collections.MEASURE)] @@ measure,
          fetches |-> <<Fetch(Collections.TIME_SERIES, measure.id, depth - 1,
                              Collections.MEASURE)>>]
    ELSE [ret |-> measure, fetches |-> <<>>]

\* MeasureServiceMongoDB._add_related_measure_name
_add_related_measure_name(d, measure, depth, source) ==
    LET has_related_measure_name == measure.measure_name_id # None
    IN  IF source # Collections.MEASURE_NAME /\ has_related_measure_name
        THEN [ret |-> [measure_name |->
                          measure_name_service_get_single_dict(
                              d, measure.measure_name_id, depth - 1,
                              Collections.MEASURE)] @@ measure,
              fetches |-> <<Fetch(Collections.MEASURE_NAME, measure.measure_name_id,
                                  depth - 1, Collections.MEASURE)>>]
        ELSE [ret |-> measure, fetches |-> <<>>]

\* MeasureServiceMongoDB._add_related_documents
_add_related_documents(d, measure, depth, source) ==
    IF depth > 0
    THEN LET t == _add_related_time_series(d, measure, depth, source)
             m == _add_related_measure_name(d, t.ret, depth, source)
         IN  [ret |-> m.ret, fetches |-> t.fetches \o m.fetches]
    ELSE [ret |-> measure, fetches |-> <<>>]

\* a variant of get_single_dict that expands an entity without relations
\* when the document is not found
get_single_dict_of_empty_entity(d, id, depth, source) ==
    LET result_dict == get_document(d, id, Collections.MEASURE)
    IN  IF IsNotFound(result_dict @@ [kind |-> "dict"])
        THEN _add_related_documents(d, [id |-> id, datatype |-> "", measure_name_id |-> None],
                                   depth, source)
        ELSE _add_related_documents(d, result_dict, depth, source)

\* GenericMongoServiceMixin.get_single_dict, for the measure service
get_single_dict(d, id, depth, source) ==
    LET result_dict == get_document(d, id, Collections.MEASURE)
    IN  IF IsNotFound(result_dict @@ [kind |-> "dict"])
        THEN [ret |-> result_dict, fetches |-> <<>>]
        ELSE _add_related_documents(d, result_dict, depth, source)

\* GenericMongoServiceMixin.get_single, for the measure service: MeasureOut(**result)
get_single(d, id, depth, source) ==
    AsModel("MeasureOut", get_single_dict(d, id, depth, source))

\* MeasureServiceMongoDB.get_measure
get_measure(d, measure_id, depth, source) == get_single(d, measure_id, depth, source)

\* GenericMongoServiceMixin.get_multiple, for the measure service, with the
\* empty query
measure_get_multiple(d, depth, source) ==
    LET results_dict == get_all_documents(d, Collections.MEASURE)
        expanded == [i \in 1..Len(results_dict) |->
                        _add_related_documents(d, results_dict[i], depth, source)]
    IN  [ret |-> [i \in 1..Len(expanded) |-> expanded[i].ret],
         fetches |-> Flatten([i \in 1..Len(expanded) |-> expanded[i].fetches])]

\* MongoApiService.create_document(object_in, dataset), for a measure
create_document(d, object_in) ==
    LET new_id == MeasureId(d.next_measure_id)
    IN  [db |-> [d EXCEPT !.measures =
                    Append(@, [id |-> new_id, datatype |-> object_in.datatype,
                               measure_name_id |-> object_in.measure_name_id]),
                          !.next_measure_id = @ + 1],
         ret |-> new_id]

\* GenericMongoServiceMixin.create, for the measure service
create(d, object_in) ==
    LET created == create_document(d, object_in)
    IN  [db |-> created.db, ret |-> get_single(created.db, created.ret, 0, "").ret]

\* MeasureServiceMongoDB.save_measure
save_measure(d, measure) ==
    LET related_mn == get_measure_name(d, measure.measure_name_id)
        mn_exists == ~IsNotFound(related_mn)
    IN  IF measure.measure_name_id # None /\ ~mn_exists
        THEN [db |-> d, ret |-> ErrorOut("MeasureOut", "given measure name does not exist")]
        ELSE create(d, measure)

\* MongoApiService.delete_document(object_to_delete, dataset), for a measure:
\* the document with the object's id leaves the collection
delete_document(d, object_to_delete) ==
    LET Others(doc) == doc.id # object_to_delete.id
    IN  [d EXCEPT !.measures = SelectSeq(@, Others)]

\* the rest of delete once the document is fetched; calls lists the arguments
\* of the storage writes issued
DeleteFetched(d, id, existing_document) ==
    IF IsNone(existing_document)
    THEN [db |-> d, ret |-> NotFoundByIdModel(id), calls |-> <<>>]
    ELSE [db |-> delete_document(d, existing_document),
          ret |-> existing_document,
          calls |-> <<existing_document>>]

\* GenericMongoServiceMixin.delete, for the measure service
delete(d, id) == DeleteFetched(d, id, get_single(d, id, 0, "").ret)

\* MeasureServiceMongoDB.delete_measure
delete_measure(d, measure_id) == delete(d, measure_id)

\* MongoApiService.update_document(id, updated_object, dataset), for a
\* measure: the document with this id takes the fields of the object
update_document(d, id, updated_object) ==
    [d EXCEPT !.measures =
        [i \in DOMAIN @ |-> IF @[i].id = id
                            THEN [id |-> id, datatype |-> updated_object.datatype,
                                  measure_name_id |-> updated_object.measure_name_id]
                            ELSE @[i]]]

\* the end of update: the write, then the document fetched again
UpdateWritten(id, updated_object, written) ==
    [db |-> written, ret |-> get_single(written, id, 0, "").ret,
     calls |-> <<[id |-> id, updated_object |-> updated_object]>>]

\* the rest of update once the document is fetched
UpdateFetched(d, id, updated_object, get_response) ==
    IF IsNotFound(get_response)
    THEN [db |-> d, ret |-> get_response, calls |-> <<>>]
    ELSE UpdateWritten(id, updated_object, update_document(d, id, updated_object))

\* a variant of update without the check of the first fetch
update_unchecked(d, id, updated_object) ==
    UpdateWritten(id, updated_object, update_document(d, id, updated_object))

\* GenericMongoServiceMixin.update, for the measure service
update(d, id, updated_object) ==
    UpdateFetched(d, id, updated_object, get_single(d, id, 0, "").ret)

(***************************************************************************)
(* Property updates.  An update returns [db, ret, calls]: calls lists the  *)
(* arguments of the writes issued (update_document of the storage gateway, *)
(* update_activity_execution of the activity service).  The stored         *)
(* documents keep the relation fields; a property patch is merged into the *)
(* fetched object and travels with it to the write.                        *)
(***************************************************************************)
\* an exception that leaves the method instead of a return value
Raised(message) == [kind |-> "raised", id |-> None, errors |-> message]

\* for field, value in patch.dict().items(): setattr(existing, field, value).
\* An output model takes the value; whether the NotFound sentinel, which does
\* not declare the field, takes it or raises is the model class's choice
\* (accepts).
SetAttrs(existing, patch, accepts) ==
    IF IsNotFound(existing) /\ ~accepts
    THEN Raised("object has no field")
    ELSE patch @@ existing

\* ActivityService.update_activity_execution(id, activity_execution_dict,
\* dataset): the embedded element with this id takes the fields of the dict
activity_service_update_activity_execution(d, activity_execution_id, activity_execution_dict) ==
    LET Is(doc) == doc.id = activity_execution_id
        Embedded(activity) == \E i \in 1..Len(activity.activity_executions) :
                                  Is(activity.activity_executions[i])
        updated == [id |-> activity_execution_id,
                    activity_id |-> activity_execution_dict.activity_id,
                    arrangement_id |-> activity_execution_dict.arrangement_id]
    IN  IF \E i \in 1..Len(d.activities) : Embedded(d.activities[i])
        THEN [db |-> [d EXCEPT !.activities =
                        [i \in DOMAIN @ |->
                            [@[i] EXCEPT !.activity_executions =
                                [j \in DOMAIN @ |-> IF Is(@[j]) THEN updated ELSE @[j]]]]],
              ret |-> ActivityExecutionOut(updated)]
        ELSE [db |-> d, ret |-> NotFoundByIdModel(activity_execution_id)]

\* the write of update_activity_execution, after the merge
ActivityExecutionWritten(activity_execution_id, activity_execution_dict, written) ==
    [db |-> written.db, ret |-> written.ret,
     calls |-> <<[id |-> activity_execution_id, updated_object |-> activity_execution_dict]>>]

\* the rest of update_activity_execution once the patch is merged
ActivityExecutionMerged(d, activity_execution_id, merged) ==
    IF merged.kind = "raised"
    THEN [db |-> d, ret |-> merged, calls |-> <<>>]
    ELSE ActivityExecutionWritten(activity_execution_id, merged,
             activity_service_update_activity_execution(d, activity_execution_id, merged))

\* ActivityExecutionServiceMongoDB.update_activity_execution
update_activity_execution(d, activity_execution_id, activity_execution, accepts) ==
    ActivityExecutionMerged(d, activity_execution_id,
        SetAttrs(get_activity_execution(d, activity_execution_id, 0, "").ret,
                 activity_execution, accepts))

\* the end of update_activity_execution_relationships, past the check of the
\* arrangement
RelationshipsChecked(d, activity_execution_id, activity_execution, existing) ==
    IF activity_execution.arrangement_id # None
       /\ IsNotFound(get_arrangement(d, activity_execution.arrangement_id))
    THEN [db |-> d, calls |-> <<>>,
          ret |-> ErrorOut("ActivityExecutionOut", "given arrangement does not exist")]
    ELSE ActivityExecutionMerged(d, activity_execution_id, activity_execution @@ existing)

\* a variant of update_activity_execution_relationships that checks the
\* activity only when an activity id is given, as save_activity_execution does
update_activity_execution_relationships_like_save(d, activity_execution_id, activity_execution) ==
    IF IsNotFound(get_activity_execution(d, activity_execution_id, 0, "").ret)
    THEN [db |-> d, calls |-> <<>>, ret |-> NotFoundByIdModel(activity_execution_id)]
    ELSE IF activity_execution.activity_id # None
            /\ IsNotFound(get_activity(d, activity_execution.activity_id))
         THEN [db |-> d, calls |-> <<>>,
               ret |-> ErrorOut("ActivityExecutionOut", "given activity does not exist")]
         ELSE RelationshipsChecked(d, activity_execution_id, activity_execution,
                  get_activity_execution(d, activity_execution_id, 0, "").ret)

\* the rest of update_activity_execution_relationships once the execution is
\* fetched
RelationshipsFetched(d, activity_execution_id, activity_execution, existing) ==
    IF IsNotFound(existing)
    THEN [db |-> d, calls |-> <<>>, ret |-> existing]
    ELSE IF IsNotFound(get_activity(d, activity_execution.activity_id))
         THEN [db |-> d, calls |-> <<>>,
               ret |-> ErrorOut("ActivityExecutionOut", "given activity does not exist")]
         ELSE RelationshipsChecked(d, activity_execution_id, activity_execution, existing)

\* ActivityExecutionServiceMongoDB.update_activity_execution_relationships
update_activity_execution_relationships(d, activity_execution_id, activity_execution) ==
    RelationshipsFetched(d, activity_execution_id, activity_execution,
        get_activity_execution(d, activity_execution_id, 0, "").ret)

\* the rest of update_measure once the patch is merged
MeasureMerged(d, measure_id, existing_measure) ==
    IF existing_measure.kind = "raised"
    THEN [db |-> d, ret |-> existing_measure, calls |-> <<>>]
    ELSE [db |-> update_document(d, measure_id, existing_measure),
          ret |-> existing_measure,
          calls |-> <<[id |-> measure_id, updated_object |-> existing_measure]>>]

\* MeasureServiceMongoDB.update_measure
update_measure(d, measure_id, measure, accepts) ==
    MeasureMerged(d, measure_id,
        SetAttrs(get_measure(d, measure_id, 0, "").ret, measure, accepts))

\* MeasureIn(**existing_measure.dict()): the input model keeps the fields it
\* declares and drops the others (id, errors, attached relations)
MeasureIn(measure_dict) ==
    [datatype |-> measure_dict.datatype, measure_name_id |-> measure_dict.measure_name_id]

\* the end of update_measure_relationships: the write of the whole record,
\* then the measure fetched again
MeasureRelationshipsWritten(measure_id, existing_measure_in, written) ==
    [db |-> written, ret |-> get_measure(written, measure_id, 0, "").ret,
     calls |-> <<[id |-> measure_id, updated_object |-> existing_measure_in]>>]

\* a variant of update_measure_relationships in which a null measure_name_id
\* leaves the stored relation as it is
update_measure_relationships_as_patch(d, measure_id, measure) ==
    IF IsNotFound(get_measure(d, measure_id, 0, "").ret)
    THEN [db |-> d, calls |-> <<>>, ret |-> NotFoundByIdModel(measure_id)]
    ELSE IF measure.measure_name_id # None
            /\ IsNotFound(get_measure_name(d, measure.measure_name_id))
         THEN [db |-> d, calls |-> <<>>,
               ret |-> ErrorOut("MeasureOut", "given measure name does not exist")]
         ELSE IF measure.measure_name_id = None
              THEN MeasureRelationshipsWritten(measure_id,
                       MeasureIn(get_measure(d, measure_id, 0, "").ret), d)
              ELSE MeasureRelationshipsWritten(measure_id,
                       [MeasureIn(get_measure(d, measure_id, 0, "").ret)
                            EXCEPT !.measure_name_id = measure.measure_name_id],
                       update_document(d, measure_id,
                           [MeasureIn(get_measure(d, measure_id, 0, "").ret)
                                EXCEPT !.measure_name_id = measure.measure_name_id]))

\* the rest of update_measure_relationships once existing_measure_in has the
\* new relation
MeasureRelationshipsMerged(d, measure_id, existing_measure_in) ==
    MeasureRelationshipsWritten(measure_id, existing_measure_in,
        update_document(d, measure_id, existing_measure_in))

\* the rest of update_measure_relationships once the measure is fetched
MeasureRelationshipsFetched(d, measure_id, measure, existing_measure) ==
    IF IsNotFound(existing_measure)
    THEN [db |-> d, calls |-> <<>>, ret |-> existing_measure]
    ELSE IF measure.measure_name_id # None
            /\ IsNotFound(get_measure_name(d, measure.measure_name_id))
         THEN [db |-> d, calls |-> <<>>,
               ret |-> ErrorOut("MeasureOut", "given measure name does not exist")]
         ELSE MeasureRelationshipsMerged(d, measure_id,
                  [MeasureIn(existing_measure)
                       EXCEPT !.measure_name_id = measure.measure_name_id])

\* MeasureServiceMongoDB.update_measure_relationships
update_measure_relationships(d, measure_id, measure) ==
    MeasureRelationshipsFetched(d, measure_id, measure, get_measure(d, measure_id, 0, "").ret)

(***************************************************************************)
(* Writes of the activity execution service.                               *)
(***************************************************************************)
\* a variant of save_activity_execution without the arrangement check
save_activity_execution_unchecked_arrangement(d, activity_execution) ==
    IF activity_execution.activity_id # None
       /\ IsNotFound(get_activity(d, activity_execution.activity_id))
    THEN [db |-> d,
          ret |-> ErrorOut("ActivityExecutionOut", "given activity does not exist")]
    ELSE activity_service_add_activity_execution(d, activity_execution)

\* ActivityExecutionServiceMongoDB.save_activity_execution
save_activity_execution(d, activity_execution) ==
    LET related_activity == get_activity(d, activity_execution.activity_id)
        related_activity_exists == ~IsNotFound(related_activity)
        related_arrangement == get_arrangement(d, activity_execution.arrangement_id)
        related_arrangement_exists == ~IsNotFound(related_arrangement)
    IN  IF activity_execution.activity_id # None /\ ~related_activity_exists
        THEN [db |-> d,
              ret |-> ErrorOut("ActivityExecutionOut", "given activity does not exist")]
        ELSE IF activity_execution.arrangement_id # None /\ ~related_arrangement_exists
        THEN [db |-> d,
              ret |-> ErrorOut("ActivityExecutionOut", "given arrangement does not exist")]
        ELSE activity_service_add_activity_execution(d, activity_execution)

\* ActivityExecutionServiceMongoDB.delete_activity_execution
activity_execution_service_delete_activity_execution(d, activity_execution_id) ==
    LET activity_execution == get_activity_execution(d, activity_execution_id, 0, "").ret
    IN  IF IsNotFound(activity_execution)
        THEN [db |-> d, ret |-> NotFoundByIdModel(activity_execution_id)]
        ELSE activity_service_remove_activity_execution(d, activity_execution)

(***************************************************************************)
(* The scenario service: the ordered sequence of execution ids.            *)
(***************************************************************************)
\* what a Python method returns when it ends without a return statement
PyNone == [kind |-> "None", id |-> None, errors |-> ""]

RECURSIVE save_activity_executions(_, _)
\* the list comprehension of save_scenario: one save_activity_execution per
\* payload, in payload order
save_activity_executions(d, payloads) ==
    IF payloads = <<>>
    THEN [db |-> d, ret |-> <<>>]
    ELSE LET first == save_activity_execution(d, Head(payloads))
             rest == save_activity_executions(first.db, Tail(payloads))
         IN  [db |-> rest.db, ret |-> <<first.ret>> \o rest.ret]

\* ScenarioServiceMongoDB.save_scenario
\* a variant of save_scenario that looks at the experiment after it has saved
\* the executions
save_scenario_checking_late(d, scenario) ==
    LET saved == save_activity_executions(d, scenario.activity_executions)
        scenario_dict == [experiment_id |-> scenario.experiment_id,
                          activity_executions |->
                              [i \in 1..Len(saved.ret) |-> saved.ret[i].id]]
    IN  IF scenario.experiment_id # None
           /\ IsNotFound(get_experiment(saved.db, scenario.experiment_id, 0, ""))
        THEN [db |-> saved.db,
              ret |-> ErrorOut("ScenarioOut", "given experiment does not exist")]
        ELSE [db |-> create_document_from_dict(saved.db, scenario_dict).db,
              ret |-> [kind |-> "ScenarioOut", id |-> None, errors |-> "",
                       experiment_id |-> scenario.experiment_id,
                       activity_executions |-> saved.ret]]

save_scenario(d, scenario) ==
    LET related_experiment == get_experiment(d, scenario.experiment_id, 0, "")
        related_experiment_exists == ~IsNotFound(related_experiment)
        saved == save_activity_executions(d, scenario.activity_executions)
        activity_executions == saved.ret
        activity_executions_ids ==
            [i \in 1..Len(activity_executions) |-> activity_executions[i].id]
        scenario_dict == [experiment_id |-> scenario.experiment_id,
                          activity_executions |-> activity_executions_ids]
        created == create_document_from_dict(saved.db, scenario_dict)
    IN  IF scenario.experiment_id # None /\ ~related_experiment_exists
        THEN [db |-> d, ret |-> ErrorOut("ScenarioOut", "given experiment does not exist")]
        ELSE [db |-> created.db,
              ret |-> [kind |-> "ScenarioOut", id |-> None, errors |-> "",
                       experiment_id |-> scenario.experiment_id,
                       activity_executions |-> activity_executions]]

\* ScenarioServiceMongoDB.get_scenario_dict_by_scenario_id
get_scenario_dict_by_scenario_id(d, scenario_id) ==
    get_document(d, scenario_id, Collections.SCENARIO)

\* the pair get_scenario_by_element_id returns, with the fetches of the read
ScenarioAndElement(scenario, related_element) ==
    [scenario |-> scenario.ret, related_element |-> related_element,
     fetches |-> scenario.fetches]

\* ScenarioServiceMongoDB.get_scenario_by_element_id: the pair
\* (scenario, related element) and the fetches of the scenario read
get_scenario_by_element_id(d, element_id, depth) ==
    LET experiment_result == get_experiment(d, element_id, 0, "")
        activity_execution_result == get_activity_execution(d, element_id, 0, "").ret
    IN  IF ~IsNotFound(experiment_result)
        THEN ScenarioAndElement(get_scenario_by_experiment(d, element_id, depth),
                                experiment_result)
        ELSE IF ~IsNotFound(activity_execution_result)
        THEN ScenarioAndElement(
                 get_scenario_by_activity_execution(d, element_id, depth, FALSE),
                 activity_execution_result)
        ELSE [scenario |-> NotFoundByIdModel(element_id), related_element |-> PyNone,
              fetches |-> <<>>]

\* ScenarioServiceMongoDB.get_scenario: the scenario of the pair
get_scenario(d, element_id, depth) ==
    [ret |-> get_scenario_by_element_id(d, element_id, depth).scenario,
     fetches |-> get_scenario_by_element_id(d, element_id, depth).fetches]

\* a variant of PutAfter that inserts at the index of previous_id, in front
\* of it
PutBefore(d, previous_id, activity_execution_id, found) ==
    LET scenario == found.scenario
        scenario_dict == get_scenario_dict_by_scenario_id(d, scenario.id)
        new_activity_execution_index ==
            IF found.related_element.kind # "ExperimentOut"
            THEN list_index(scenario_dict.activity_executions, previous_id)
            ELSE 0
        updated == [scenario_dict EXCEPT !.activity_executions =
                        list_insert(@, new_activity_execution_index, activity_execution_id)]
    IN  IF IsNotFound(scenario)
        THEN [db |-> d, ret |-> scenario]
        ELSE [db |-> update_document_with_dict(d, scenario.id, updated), ret |-> PyNone]

\* a variant of PutAfter that puts an execution added after an experiment
\* at the end of the sequence
PutLast(d, previous_id, activity_execution_id, found) ==
    LET scenario == found.scenario
        scenario_dict == get_scenario_dict_by_scenario_id(d, scenario.id)
        new_activity_execution_index ==
            IF found.related_element.kind # "ExperimentOut"
            THEN list_index(scenario_dict.activity_executions, previous_id) + 1
            ELSE Len(scenario_dict.activity_executions)
        updated == [scenario_dict EXCEPT !.activity_executions =
                        list_insert(@, new_activity_execution_index, activity_execution_id)]
    IN  IF IsNotFound(scenario)
        THEN [db |-> d, ret |-> scenario]
        ELSE [db |-> update_document_with_dict(d, scenario.id, updated), ret |-> PyNone]

\* _put_activity_execution_after_element after its lookup: found is the pair
\* (scenario, related_element) of get_scenario_by_element_id
PutAfter(d, previous_id, activity_execution_id, found) ==
    LET scenario == found.scenario
        related_element == found.related_element
        scenario_dict == get_scenario_dict_by_scenario_id(d, scenario.id)
        is_from_experiment == related_element.kind = "ExperimentOut"
        new_activity_execution_index ==
            IF ~is_from_experiment
            THEN list_index(scenario_dict.activity_executions, previous_id) + 1
            ELSE 0
        updated == [scenario_dict EXCEPT !.activity_executions =
                        list_insert(@, new_activity_execution_index, activity_execution_id)]
    IN  IF IsNotFound(scenario)
        THEN [db |-> d, ret |-> scenario]
        ELSE [db |-> update_document_with_dict(d, scenario.id, updated), ret |-> PyNone]

\* ScenarioServiceMongoDB._put_activity_execution_after_element
_put_activity_execution_after_element(d, previous_id, activity_execution_id) ==
    PutAfter(d, previous_id, activity_execution_id,
             get_scenario_by_element_id(d, previous_id, 0))

\* add_activity_execution after the creation: the execution is put after
\* previous_id, the result of the put is dropped, the execution is returned
PutSaved(previous_id, saved) ==
    [db |-> _put_activity_execution_after_element(saved.db, previous_id, saved.ret.id).db,
     ret |-> saved.ret]

\* ScenarioServiceMongoDB.add_activity_execution
add_activity_execution(d, previous_id, activity_execution) ==
    PutSaved(previous_id, save_activity_execution(d, activity_execution))

\* a variant of RemoveFrom that also deletes the execution itself
RemoveAndDelete(d, activity_execution_id, scenario) ==
    LET scenario_dict == get_scenario_dict_by_scenario_id(d, scenario.id)
        updated == [scenario_dict EXCEPT !.activity_executions =
                        list_remove(@, activity_execution_id)]
        written == update_document_with_dict(d, scenario.id, updated)
    IN  IF IsNotFound(scenario)
        THEN [db |-> d, ret |-> scenario]
        ELSE activity_execution_service_delete_activity_execution(
                 written, activity_execution_id)

\* delete_activity_execution after its lookup of the scenario
\* a variant of RemoveFrom that returns the execution also when no scenario
\* holds it
RemoveFromOrFetch(d, activity_execution_id, scenario) ==
    LET scenario_dict == get_scenario_dict_by_scenario_id(d, scenario.id)
        updated == [scenario_dict EXCEPT !.activity_executions =
                        list_remove(@, activity_execution_id)]
        written == update_document_with_dict(d, scenario.id, updated)
    IN  IF IsNotFound(scenario)
        THEN [db |-> d, ret |-> get_activity_execution(d, activity_execution_id, 0, "").ret]
        ELSE [db |-> written,
              ret |-> get_activity_execution(written, activity_execution_id, 0, "").ret]

RemoveFrom(d, activity_execution_id, scenario) ==
    LET scenario_dict == get_scenario_dict_by_scenario_id(d, scenario.id)
        updated == [scenario_dict EXCEPT !.activity_executions =
                        list_remove(@, activity_execution_id)]
        written == update_document_with_dict(d, scenario.id, updated)
    IN  IF IsNotFound(scenario)
        THEN [db |-> d, ret |-> scenario]
        ELSE [db |-> written,
              ret |-> get_activity_execution(written, activity_execution_id, 0, "").ret]

\* ScenarioServiceMongoDB.delete_activity_execution
delete_activity_execution(d, activity_execution_id) ==
    RemoveFrom(d, activity_execution_id,
               get_scenario_by_activity_execution(d, activity_execution_id, 0, FALSE).ret)

\* a variant of change_order that inserts without removing first
change_order_without_remove(d, order_change) ==
    IF order_change.activity_execution_id = order_change.previous_id
    THEN [db |-> d,
          ret |-> ErrorOut("OrderChangeOut", "Given indexes for order change are identical")]
    ELSE [db |-> _put_activity_execution_after_element(
                     d, order_change.previous_id, order_change.activity_execution_id).db,
          ret |-> [kind |-> "OrderChangeOut", id |-> None, errors |-> ""]]

\* a variant of change_order without the check of identical ids
change_order_unchecked(d, order_change) ==
    [db |-> _put_activity_execution_after_element(
                delete_activity_execution(d, order_change.activity_execution_id).db,
                order_change.previous_id, order_change.activity_execution_id).db,
     ret |-> [kind |-> "OrderChangeOut", id |-> None, errors |-> ""]]

\* a variant of change_order that restores the dataset when the insert fails
change_order_with_rollback(d, order_change) ==
    LET put == _put_activity_execution_after_element(
                   delete_activity_execution(d, order_change.activity_execution_id).db,
                   order_change.previous_id, order_change.activity_execution_id)
    IN  IF order_change.activity_execution_id = order_change.previous_id
        THEN [db |-> d,
              ret |-> ErrorOut("OrderChangeOut",
                               "Given indexes for order change are identical")]
        ELSE [db |-> IF IsNotFound(put.ret) THEN d ELSE put.db,
              ret |-> [kind |-> "OrderChangeOut", id |-> None, errors |-> ""]]

\* ScenarioServiceMongoDB.change_order
change_order(d, order_change) ==
    IF order_change.activity_execution_id = order_change.previous_id
    THEN [db |-> d,
          ret |-> ErrorOut("OrderChangeOut", "Given indexes for order change are identical")]
    ELSE [db |-> _put_activity_execution_after_element(
                     delete_activity_execution(d, order_change.activity_execution_id).db,
                     order_change.previous_id, order_change.activity_execution_id).db,
          ret |-> [kind |-> "OrderChangeOut", id |-> None, errors |-> ""]]

(***************************************************************************)
(* State machine.  db is the dataset after construction of the services:   *)
(* the collaborators' collections hold their documents, no execution and   *)
(* no scenario has been created.  last names the method of the latest      *)
(* request.                                                                *)
(***************************************************************************)
\* a dataset after construction: the collaborators' entities, nothing else
EmptyDataset ==
    [experiments |-> ExperimentIds,
     arrangements |-> ArrangementIds,
     activities |-> <<[id |-> <<"activity", 1>>, activity_executions |-> <<>>]>>,
     participations |-> <<>>,
     scenarios |-> <<>>,
     measure_names |-> MeasureNameIds,
     time_series |-> <<>>,
     measures |-> <<>>,
     next_id |-> 1,
     next_measure_id |-> 1]

Init ==
    /\ db = EmptyDataset
    /\ last = [op |-> "init"]

\* request payloads (ActivityExecutionIn)
ActivityExecutionIn ==
    [activity_id : ActivityIds \cup {UnknownId, None},
     arrangement_id : ArrangementIds \cup {UnknownId, None}]

\* the ids of the executions created so far, stored or deleted since
CreatedIds(d) == {ActivityExecutionId(n) : n \in 1..(d.next_id - 1)}

\* identifiers a request may name (a request never carries a null id)
RequestIds(d) == ExperimentIds \cup CreatedIds(d) \cup {UnknownId}

\* the payloads the requests of the state machine carry: a valid one, and one
\* for each way the creation of the execution fails
Payloads ==
    {[activity_id |-> <<"activity", 1>>, arrangement_id |-> None],
     [activity_id |-> UnknownId, arrangement_id |-> None],
     [activity_id |-> <<"activity", 1>>, arrangement_id |-> UnknownId],
     [activity_id |-> None, arrangement_id |-> None]}

\* lists of at most n payloads
PayloadLists(n) == UNION {[1..k -> Payloads] : k \in 0..n}

\* the number of null ids in a sequence
Nulls(s) == Cardinality({i \in 1..Len(s) : s[i] = None})

RECURSIVE TotalNulls(_)
TotalNulls(scenarios) ==
    IF scenarios = <<>> THEN 0
    ELSE Nulls(Head(scenarios).activity_executions) + TotalNulls(Tail(scenarios))

NullBound(d) == TotalNulls(d.scenarios) <= MaxNulls

\* the executions stored in the activities' embedded arrays
StoredExecutions(d) ==
    UNION {Range(d.activities[i].activity_executions) : i \in 1..Len(d.activities)}

StoredIds(d) == {doc.id : doc \in StoredExecutions(d)}

SaveActivityExecution ==
    \E activity_execution \in Payloads :
        LET r == save_activity_execution(db, activity_execution)
        IN  /\ db.next_id <= MaxExecutions
            /\ db' = r.db
            /\ last' = [op |-> "save_activity_execution"]

DeleteActivityExecution ==
    \E id \in RequestIds(db) :
        LET r == activity_execution_service_delete_activity_execution(db, id)
        IN  /\ Cardinality(CreatedIds(r.db) \ StoredIds(r.db)) <= MaxDeleted
            /\ db' = r.db
            /\ last' = [op |-> "activity_execution_service_delete_activity_execution"]

SaveScenario ==
    \E experiment_id \in ExperimentIds \cup {UnknownId, None},
       payloads \in PayloadLists(MaxPayloads) :
        LET scenario == [experiment_id |-> experiment_id, activity_executions |-> payloads]
            r == save_scenario(db, scenario)
        IN  /\ Len(db.scenarios) < MaxScenarios
            /\ r.db.next_id <= MaxExecutions + 1
            /\ NullBound(r.db)
            /\ db' = r.db
            /\ last' = [op |-> "save_scenario"]

AddActivityExecution ==
    \E previous_id \in RequestIds(db), activity_execution \in Payloads :
        LET r == add_activity_execution(db, previous_id, activity_execution)
        IN  /\ db.next_id <= MaxExecutions
            /\ NullBound(r.db)
            /\ db' = r.db
            /\ last' = [op |-> "add_activity_execution"]

ChangeOrder ==
    \E activity_execution_id \in CreatedIds(db), previous_id \in RequestIds(db) :
        LET order_change == [activity_execution_id |-> activity_execution_id,
                             previous_id |-> previous_id]
            r == change_order(db, order_change)
        IN  /\ NullBound(r.db)
            /\ db' = r.db
            /\ last' = [op |-> "change_order"]

ScenarioDeleteActivityExecution ==
    \E id \in RequestIds(db) :
        LET r == delete_activity_execution(db, id)
        IN  /\ db' = r.db
            /\ last' = [op |-> "delete_activity_execution"]

Next ==
    \/ SaveActivityExecution
    \/ DeleteActivityExecution
    \/ SaveScenario
    \/ AddActivityExecution
    \/ ChangeOrder
    \/ ScenarioDeleteActivityExecution

Spec == Init /\ [][Next]_vars

(***************************************************************************)
(* The reads.  A read leaves db alone; last keeps the request and what it  *)
(* returned.                                                               *)
(***************************************************************************)
\* source tags a read of an activity execution may arrive with
ActivityExecutionSources ==
    {"", Collections.ACTIVITY, Collections.ARRANGEMENT, Collections.EXPERIMENT,
     Collections.PARTICIPATION}

\* source tags a read of a measure may arrive with
MeasureSources == {"", Collections.TIME_SERIES, Collections.MEASURE_NAME}

MeasureIds(d) == {d.measures[i].id : i \in 1..Len(d.measures)}

\* the payloads the requests of the read machine carry
ReadPayloads ==
    {[activity_id |-> <<"activity", 1>>, arrangement_id |-> None],
     [activity_id |-> <<"activity", 1>>, arrangement_id |-> <<"arrangement", 1>>],
     [activity_id |-> UnknownId, arrangement_id |-> None]}

\* the depths a read is requested with
ReadDepths == -1..MaxDepth

\* what last keeps of a read that returns a list of dicts
ListResult(items) == [kind |-> "list", id |-> None, errors |-> "", items |-> items]

SaveActivityExecutionForRead ==
    \E activity_execution \in ReadPayloads :
        LET r == save_activity_execution(db, activity_execution)
        IN  /\ db.next_id <= MaxExecutions
            /\ db' = r.db
            /\ last' = [op |-> "save_activity_execution"]

SaveMeasure ==
    \E measure_name_id \in MeasureNameIds \cup {UnknownId, None} :
        LET r == save_measure(db, [datatype |-> "initial", measure_name_id |-> measure_name_id])
        IN  /\ db.next_measure_id <= MaxMeasures
            /\ db' = r.db
            /\ last' = [op |-> "save_measure"]

GetActivityExecution ==
    \E id \in CreatedIds(db) \cup {UnknownId, None},
       depth \in ReadDepths, source \in ActivityExecutionSources,
       as_dict \in BOOLEAN :
        LET r == IF as_dict THEN activity_execution_get_single_dict(db, id, depth, source)
                 ELSE get_activity_execution(db, id, depth, source)
        IN  /\ db' = db
            /\ last' = [op |-> IF as_dict THEN "activity_execution_get_single_dict"
                               ELSE "get_activity_execution",
                        id |-> id, depth |-> depth, source |-> source,
                        ret |-> r.ret @@ [kind |-> "dict"], fetches |-> r.fetches]

\* a variant of GetMeasure whose read takes the document out of the collection
GetMeasureOnce ==
    \E id \in MeasureIds(db) \cup {UnknownId, None},
       depth \in ReadDepths, source \in MeasureSources, as_dict \in BOOLEAN :
        LET r == IF as_dict THEN get_single_dict(db, id, depth, source)
                 ELSE get_measure(db, id, depth, source)
            Others(doc) == doc.id # id
        IN  /\ db' = [db EXCEPT !.measures = SelectSeq(@, Others)]
            /\ last' = [op |-> IF as_dict THEN "get_single_dict" ELSE "get_measure",
                        id |-> id, depth |-> depth, source |-> source,
                        ret |-> r.ret @@ [kind |-> "dict"], fetches |-> r.fetches]

GetMeasure ==
    \E id \in MeasureIds(db) \cup {UnknownId, None},
       depth \in ReadDepths, source \in MeasureSources, as_dict \in BOOLEAN :
        LET r == IF as_dict THEN get_single_dict(db, id, depth, source)
                 ELSE get_measure(db, id, depth, source)
        IN  /\ db' = db
            /\ last' = [op |-> IF as_dict THEN "get_single_dict" ELSE "get_measure",
                        id |-> id, depth |-> depth, source |-> source,
                        ret |-> r.ret @@ [kind |-> "dict"], fetches |-> r.fetches]

GetActivityExecutions ==
    \E depth \in ReadDepths, source \in ActivityExecutionSources :
        LET r == activity_execution_get_multiple(db, depth, source)
        IN  /\ db' = db
            /\ last' = [op |-> "activity_execution_get_multiple",
                        id |-> None, depth |-> depth, source |-> source,
                        ret |-> ListResult(r.ret), fetches |-> r.fetches]

GetMeasures ==
    \E depth \in ReadDepths, source \in MeasureSources :
        LET r == measure_get_multiple(db, depth, source)
        IN  /\ db' = db
            /\ last' = [op |-> "measure_get_multiple",
                        id |-> None, depth |-> depth, source |-> source,
                        ret |-> ListResult(r.ret), fetches |-> r.fetches]

NextRead ==
    \/ SaveActivityExecutionForRead
    \/ DeleteActivityExecution
    \/ SaveMeasure
    \/ GetActivityExecution
    \/ GetMeasure
    \/ GetActivityExecutions
    \/ GetMeasures

SpecRead == Init /\ [][NextRead]_vars

(***************************************************************************)
(* The expansion of scenarios and of the executions they hold.  The        *)
(* dataset gets executions with and without an arrangement, scenarios and  *)
(* participations; last keeps the method of the latest request, the depth  *)
(* of a read and whether it found its entity.                              *)
(***************************************************************************)
MaxParticipations == 1

MaxReadScenarios == 1

\* ParticipationService.save_participation, for a stored execution
save_participation(d, activity_execution_id) ==
    [d EXCEPT !.participations =
        Append(@, [id |-> <<"participation", Len(@) + 1>>,
                   activity_execution_id |-> activity_execution_id])]

\* lists of at most n of the read machine's payloads
ReadPayloadLists(n) == UNION {[1..k -> ReadPayloads] : k \in 0..n}

SaveScenarioForRead ==
    \E experiment_id \in ExperimentIds, payloads \in ReadPayloadLists(MaxPayloads) :
        LET scenario == [experiment_id |-> experiment_id, activity_executions |-> payloads]
            r == save_scenario(db, scenario)
        IN  /\ Len(db.scenarios) < MaxReadScenarios
            /\ r.db.next_id <= MaxExecutions + 1
            /\ NullBound(r.db)
            /\ db' = r.db
            /\ last' = [op |-> "save_scenario"]

SaveParticipation ==
    \E activity_execution_id \in StoredIds(db) :
        /\ Len(db.participations) < MaxParticipations
        /\ db' = save_participation(db, activity_execution_id)
        /\ last' = [op |-> "save_participation"]

\* the scenario reads, by method name
ScenarioReads ==
    {"get_scenario", "get_scenario_by_experiment", "get_scenario_by_activity_execution"}

ScenarioRead(d, op, element_id, depth) ==
    CASE op = "get_scenario" -> get_scenario(d, element_id, depth)
      [] op = "get_scenario_by_experiment" -> get_scenario_by_experiment(d, element_id, depth)
      [] OTHER -> get_scenario_by_activity_execution(d, element_id, depth, FALSE)

\* a variant of GetScenario that stores the fetched executions in the scenario
GetScenarioStoringObjects ==
    \E element_id \in RequestIds(db), depth \in ReadDepths, op \in ScenarioReads :
        LET r == ScenarioRead(db, op, element_id, depth)
        IN  /\ db' = IF IsNotFound(r.ret) THEN db
                     ELSE [db EXCEPT !.scenarios =
                              [i \in DOMAIN @ |->
                                  IF @[i].id = r.ret.id
                                  THEN [@[i] EXCEPT !.activity_executions =
                                                        r.ret.activity_executions]
                                  ELSE @[i]]]
            /\ last' = [op |-> op, depth |-> depth, found |-> ~IsNotFound(r.ret)]

GetScenario ==
    \E element_id \in RequestIds(db), depth \in ReadDepths, op \in ScenarioReads :
        LET r == ScenarioRead(db, op, element_id, depth)
        IN  /\ db' = db
            /\ last' = [op |-> op, depth |-> depth, found |-> ~IsNotFound(r.ret)]

\* the read of an execution, in a dataset that has scenarios
GetScenarioActivityExecution ==
    \E id \in RequestIds(db), depth \in ReadDepths, source \in ActivityExecutionSources :
        LET r == get_activity_execution(db, id, depth, source)
        IN  /\ db' = db
            /\ last' = [op |-> "get_activity_execution", depth |-> depth,
                        found |-> ~IsNotFound(r.ret)]

\* the read of every execution, in a dataset that has scenarios
GetScenarioActivityExecutions ==
    \E depth \in ReadDepths, source \in ActivityExecutionSources :
        LET r == activity_execution_get_multiple(db, depth, source)
        IN  /\ db' = db
            /\ last' = [op |-> "activity_execution_get_multiple", depth |-> depth,
                        found |-> r.ret # <<>>]

NextExpand ==
    \/ SaveActivityExecutionForRead
    \/ SaveScenarioForRead
    \/ SaveParticipation
    \/ GetScenario
    \/ GetScenarioActivityExecution
    \/ GetScenarioActivityExecutions

SpecExpand == Init /\ [][NextExpand]_vars

(***************************************************************************)
(* The scenario writes together with the scenario reads.                   *)
(***************************************************************************)
\* a variant of ReadScenario that stores the scenario as the read returns it,
\* with the fetched executions in place of their ids
ReadScenarioStoringObjects ==
    \E element_id \in RequestIds(db), depth \in {0, MaxDepth}, op \in ScenarioReads :
        LET r == ScenarioRead(db, op, element_id, depth)
        IN  /\ ~IsNotFound(r.ret)
            /\ db' = [db EXCEPT !.scenarios =
                         [i \in DOMAIN @ |->
                             IF @[i].id = r.ret.id
                             THEN [@[i] EXCEPT !.activity_executions =
                                                   r.ret.activity_executions]
                             ELSE @[i]]]
            /\ last' = [op |-> op]

\* a scenario read that finds its scenario, at the least and the largest depth
ReadScenario ==
    \E element_id \in RequestIds(db), depth \in {0, MaxDepth}, op \in ScenarioReads :
        LET r == ScenarioRead(db, op, element_id, depth)
        IN  /\ ~IsNotFound(r.ret)
            /\ db' = db
            /\ last' = [op |-> op]

NextStored ==
    \/ Next
    \/ ReadScenario

SpecStored == Init /\ [][NextStored]_vars

(***************************************************************************)
(* Several datasets.  Here db holds the documents of every dataset by      *)
(* name, data[dataset_name], and the collection of dataset documents that  *)
(* the dataset service keeps under mongo_database_name.  An operation      *)
(* works on the documents of the dataset name it is given, which it hands  *)
(* to every call it makes; last keeps the method and that name.            *)
(***************************************************************************)
\* executions created in one dataset
MaxDatasetExecutions == 1
\* scenario documents created in one dataset
MaxDatasetScenarios == 1
\* dataset documents created in one run
MaxDatasets == 1

DatasetNames == {"dataset_a", "dataset_b"}

mongo_database_name == "main"

DatasetId(n) == <<"dataset", n>>

\* GenericMongoServiceMixin.get_single, for the dataset service
get_dataset(d, dataset_id) ==
    IF \E i \in 1..Len(d.datasets) : d.datasets[i].id = dataset_id
    THEN [kind |-> "DatasetOut", errors |-> ""] @@
         d.datasets[CHOOSE i \in 1..Len(d.datasets) : d.datasets[i].id = dataset_id]
    ELSE NotFoundByIdModel(dataset_id)

\* DatasetServiceMongoDB.save_dataset: create, then the document fetched
save_dataset(d, dataset) ==
    [d EXCEPT !.datasets = Append(@, [id |-> DatasetId(d.next_dataset_id),
                                      name_by_user |-> dataset.name_by_user]),
              !.next_dataset_id = @ + 1]

\* DatasetServiceMongoDB.delete_dataset: the mixin's delete, which hands what
\* it fetched to delete_document
delete_dataset(d, dataset_id) ==
    LET existing_document == get_dataset(d, dataset_id)
        Others(doc) == doc.id # existing_document.id
    IN  [d EXCEPT !.datasets = SelectSeq(@, Others)]

InitDatasets ==
    /\ db = [datasets |-> <<>>, next_dataset_id |-> 1,
             data |-> [dataset_name \in DatasetNames |-> EmptyDataset]]
    /\ last = [op |-> "init", dataset_name |-> mongo_database_name]

DatasetBound(d) ==
    /\ d.next_id <= MaxDatasetExecutions + 1
    /\ Len(d.scenarios) <= MaxDatasetScenarios
    /\ NullBound(d)

\* the step of an operation given dataset_name that ends with the documents r
InDataset(op, dataset_name, r) ==
    /\ DatasetBound(r)
    /\ db' = [db EXCEPT !.data[dataset_name] = r]
    /\ last' = [op |-> op, dataset_name |-> dataset_name]

DatasetSaveScenario ==
    \E dataset_name \in DatasetNames, experiment_id \in ExperimentIds,
       payloads \in ReadPayloadLists(MaxDatasetExecutions) :
        /\ Len(db.data[dataset_name].scenarios) < MaxDatasetScenarios
        /\ InDataset("save_scenario", dataset_name,
                     save_scenario(db.data[dataset_name],
                                   [experiment_id |-> experiment_id,
                                    activity_executions |-> payloads]).db)

\* a variant of DatasetAddActivityExecution that stores what it wrote under
\* another dataset name
DatasetAddActivityExecutionElsewhere ==
    \E dataset_name \in DatasetNames, other \in DatasetNames,
       previous_id \in ExperimentIds \cup {UnknownId}, activity_execution \in ReadPayloads :
        LET r == add_activity_execution(db.data[dataset_name], previous_id,
                                        activity_execution).db
        IN  /\ other # dataset_name
            /\ db.data[dataset_name].next_id <= MaxDatasetExecutions
            /\ db' = [db EXCEPT !.data[other] = r]
            /\ last' = [op |-> "add_activity_execution", dataset_name |-> dataset_name]

DatasetAddActivityExecution ==
    \E dataset_name \in DatasetNames,
       previous_id \in ExperimentIds \cup {UnknownId}, activity_execution \in ReadPayloads :
        /\ db.data[dataset_name].next_id <= MaxDatasetExecutions
        /\ InDataset("add_activity_execution", dataset_name,
                     add_activity_execution(db.data[dataset_name], previous_id,
                                            activity_execution).db)

DatasetDeleteActivityExecution ==
    \E dataset_name \in DatasetNames :
        \E id \in RequestIds(db.data[dataset_name]) :
            InDataset("delete_activity_execution", dataset_name,
                      delete_activity_execution(db.data[dataset_name], id).db)

DatasetReadScenario ==
    \E dataset_name \in DatasetNames, depth \in {0, MaxDepth}, op \in ScenarioReads :
        \E element_id \in RequestIds(db.data[dataset_name]) :
            /\ ~IsNotFound(ScenarioRead(db.data[dataset_name], op, element_id, depth).ret)
            /\ InDataset(op, dataset_name, db.data[dataset_name])

SaveDataset ==
    \E name_by_user \in DatasetNames :
        /\ db.next_dataset_id <= MaxDatasets
        /\ db' = save_dataset(db, [name_by_user |-> name_by_user])
        /\ last' = [op |-> "save_dataset", dataset_name |-> mongo_database_name]

DeleteDataset ==
    \E dataset_id \in {DatasetId(n) : n \in 1..MaxDatasets} :
        /\ db' = delete_dataset(db, dataset_id)
        /\ last' = [op |-> "delete_dataset", dataset_name |-> mongo_database_name]

NextDatasets ==
    \/ DatasetSaveScenario
    \/ DatasetAddActivityExecution
    \/ DatasetDeleteActivityExecution
    \/ DatasetReadScenario
    \/ SaveDataset
    \/ DeleteDataset

SpecDatasets == InitDatasets /\ [][NextDatasets]_vars

(***************************************************************************)
(* The measure service over the generic mixin.  The dataset gets measures  *)
(* and time series; last keeps a read's request and result as in the read  *)
(* machine above.                                                          *)
(***************************************************************************)
MaxTimeSeries == 2

\* TimeSeriesService.save_time_series, for a measure or for none
save_time_series(d, measure_id) ==
    [d EXCEPT !.time_series =
        Append(@, [id |-> <<"time_series", Len(@) + 1>>, measure_id |-> measure_id])]

SaveTimeSeries ==
    \E measure_id \in MeasureIds(db) \cup {None} :
        /\ Len(db.time_series) < MaxTimeSeries
        /\ db' = save_time_series(db, measure_id)
        /\ last' = [op |-> "save_time_series"]

\* what last keeps of a write through the mixin: the request, whether the
\* document existed, the result, the storage writes issued and whether the
\* storage changed
WriteRecord(op, id, d, r) ==
    [op |-> op, id |-> id, existed |-> id \in MeasureIds(d), ret |-> r.ret,
     calls |-> r.calls, changed |-> r.db # d]

DeleteMeasure ==
    \E measure_id \in MeasureIds(db) \cup {UnknownId} :
        LET r == delete_measure(db, measure_id)
        IN  /\ db' = r.db
            /\ last' = WriteRecord("delete_measure", measure_id, db, r)

\* the replacement states an update is requested with
UpdatedObjects ==
    {[datatype |-> "changed", measure_name_id |-> n] : n \in MeasureNameIds \cup {None}}

Update ==
    \E id \in MeasureIds(db) \cup {UnknownId}, updated_object \in UpdatedObjects :
        LET r == update(db, id, updated_object)
        IN  /\ db' = r.db
            /\ last' = WriteRecord("update", id, db, r)

NextMeasure ==
    \/ SaveMeasure
    \/ SaveTimeSeries
    \/ GetMeasure
    \/ GetMeasures
    \/ DeleteMeasure
    \/ Update

SpecMeasure == Init /\ [][NextMeasure]_vars

(***************************************************************************)
(* The updates of executions and measures.  last keeps the request, whether *)
(* the entity existed, the result, the writes issued and whether the       *)
(* storage changed.                                                        *)
(***************************************************************************)
\* the property patches an update is requested with
ActivityExecutionPatches == {[additional_properties |-> "changed"]}

MeasurePatches == {[datatype |-> "changed"]}

UpdateRecord(op, id, existed, d, r) ==
    [op |-> op, id |-> id, existed |-> existed, ret |-> r.ret,
     calls |-> r.calls, changed |-> r.db # d]

UpdateActivityExecution ==
    \E id \in CreatedIds(db) \cup {UnknownId}, patch \in ActivityExecutionPatches,
       accepts \in BOOLEAN :
        LET r == update_activity_execution(db, id, patch, accepts)
        IN  /\ db' = r.db
            /\ last' = UpdateRecord("update_activity_execution", id,
                                     id \in StoredIds(db), db, r)

UpdateMeasure ==
    \E id \in MeasureIds(db) \cup {UnknownId}, patch \in MeasurePatches,
       accepts \in BOOLEAN :
        LET r == update_measure(db, id, patch, accepts)
        IN  /\ db' = r.db
            /\ last' = UpdateRecord("update_measure", id, id \in MeasureIds(db), db, r)

\* the relations an update of relationships is requested with
ActivityExecutionRelations ==
    [activity_id : ActivityIds \cup {UnknownId, None},
     arrangement_id : ArrangementIds \cup {UnknownId, None}]

UpdateActivityExecutionRelationships ==
    \E id \in CreatedIds(db) \cup {UnknownId}, relations \in ActivityExecutionRelations :
        LET r == update_activity_execution_relationships(db, id, relations)
        IN  /\ db' = r.db
            /\ last' = [request |-> relations] @@
                       UpdateRecord("update_activity_execution_relationships", id,
                                    id \in StoredIds(db), db, r)

\* the relation an update of a measure's relationships is requested with
MeasureRelations == [measure_name_id : MeasureNameIds \cup {UnknownId, None}]

\* the stored measure with this id
StoredMeasure(d, id) == get_document(d, id, Collections.MEASURE)

UpdateMeasureRelationships ==
    \E id \in MeasureIds(db) \cup {UnknownId}, relations \in MeasureRelations :
        LET r == update_measure_relationships(db, id, relations)
        IN  /\ db' = r.db
            /\ last' = [request |-> relations, before |-> StoredMeasure(db, id)] @@
                       UpdateRecord("update_measure_relationships", id,
                                    id \in MeasureIds(db), db, r)

NextUpdate ==
    \/ SaveActivityExecutionForRead
    \/ DeleteActivityExecution
    \/ SaveMeasure
    \/ UpdateActivityExecution
    \/ UpdateMeasure
    \/ UpdateActivityExecutionRelationships
    \/ UpdateMeasureRelationships

SpecUpdate == Init /\ [][NextUpdate]_vars

(***************************************************************************)
(* Two add_activity_execution requests at the same time.  A request is a   *)
(* sequence of storage calls, and the calls of the two requests take turns *)
(* in any order.  last.requests keeps, for each request, how far it has    *)
(* come (pc) and the local variables of add_activity_execution and of      *)
(* _put_activity_execution_after_element: previous_id, the id of the       *)
(* execution it created, the scenario it found, the related element's kind *)
(* and the scenario_dict it read.  The creation of the execution and the   *)
(* lookup of the scenario are one step each.                               *)
(***************************************************************************)
\* payloads of the scenario that exists before the requests start
MaxInterleavePayloads == 1

Requests == {"first", "second"}

\* a request that has not started
IdleRequest ==
    [pc |-> "idle", previous_id |-> None, new_activity_execution_id |-> None,
     scenario |-> PyNone, is_from_experiment |-> FALSE, scenario_dict |-> PyNone]

\* the datasets the requests start in: one scenario of the experiment, or
\* two, saved with valid payloads
InterleaveStarts ==
    LET Saved(d, n) ==
            save_scenario(d, [experiment_id |-> <<"experiment", 1>>,
                              activity_executions |->
                                  [i \in 1..n |-> [activity_id |-> <<"activity", 1>>,
                                                   arrangement_id |-> None]]]).db
        One == {Saved(EmptyDataset, n) : n \in 0..MaxInterleavePayloads}
    IN  One \cup {Saved(d, MaxInterleavePayloads) : d \in One}

InitInterleave ==
    /\ db \in InterleaveStarts
    /\ last = [op |-> "init", requests |-> [r \in Requests |-> IdleRequest]]

\* the step of request r that leaves the documents d and the locals local
RequestStep(op, r, d, local) ==
    /\ db' = d
    /\ last' = [op |-> op, requests |-> [last.requests EXCEPT ![r] = local]]

\* add_activity_execution up to the call of the put: the execution is
\* created and its id kept
CreateStep(r) ==
    \E previous_id \in RequestIds(db), activity_execution \in Payloads :
        LET saved == save_activity_execution(db, activity_execution)
        IN  /\ last.requests[r].pc = "idle"
            /\ RequestStep("save_activity_execution", r, saved.db,
                           [last.requests[r] EXCEPT
                               !.pc = "created",
                               !.previous_id = previous_id,
                               !.new_activity_execution_id = saved.ret.id])

\* _put_activity_execution_after_element: the lookup of the scenario; the
\* request ends here when there is none
LocateStep(r) ==
    LET local == last.requests[r]
        found == get_scenario_by_element_id(db, local.previous_id, 0)
    IN  /\ local.pc = "created"
        /\ RequestStep("get_scenario_by_element_id", r, db,
                       [local EXCEPT
                           !.pc = IF IsNotFound(found.scenario) THEN "done" ELSE "located",
                           !.scenario = found.scenario,
                           !.is_from_experiment =
                               found.related_element.kind = "ExperimentOut"])

\* _put_activity_execution_after_element: the read of the scenario document
ReadStep(r) ==
    LET local == last.requests[r]
    IN  /\ local.pc = "located"
        /\ RequestStep("get_scenario_dict_by_scenario_id", r, db,
                       [local EXCEPT
                           !.pc = "read",
                           !.scenario_dict =
                               get_scenario_dict_by_scenario_id(db, local.scenario.id)])

\* the scenario_dict after the local insert
Inserted(scenario_dict, previous_id, activity_execution_id, is_from_experiment) ==
    LET new_activity_execution_index ==
            IF ~is_from_experiment
            THEN list_index(scenario_dict.activity_executions, previous_id) + 1
            ELSE 0
    IN  [scenario_dict EXCEPT !.activity_executions =
             list_insert(@, new_activity_execution_index, activity_execution_id)]

\* _put_activity_execution_after_element: the local insert and the write of
\* the whole document
WriteStep(r) ==
    LET local == last.requests[r]
        scenario_dict == Inserted(local.scenario_dict, local.previous_id,
                                  local.new_activity_execution_id,
                                  local.is_from_experiment)
    IN  /\ local.pc = "read"
        /\ RequestStep("update_document_with_dict", r,
                       update_document_with_dict(db, local.scenario.id, scenario_dict),
                       [local EXCEPT !.pc = "done", !.scenario_dict = scenario_dict])

NextInterleave ==
    \E r \in Requests :
        \/ CreateStep(r)
        \/ LocateStep(r)
        \/ ReadStep(r)
        \/ WriteStep(r)

SpecInterleave == InitInterleave /\ [][NextInterleave]_vars

(***************************************************************************)
(* Vocabulary of the properties.  Each property of an operation is stated  *)
(* for every request the operation can receive in the current state: the   *)
(* operation is applied to db and its result is compared with what the     *)
(* property says.                                                          *)
(***************************************************************************)
\* the persisted sequence of the k-th scenario
Sequence(d, k) == d.scenarios[k].activity_executions

ScenarioIndexes(d) == 1..Len(d.scenarios)

\* every persisted sequence, in scenario order
AllSequences(d) == [k \in ScenarioIndexes(d) |-> Sequence(d, k)]

\* the scenarios whose sequence holds the id
ScenariosWith(d, id) == {k \in ScenarioIndexes(d) : id \in Range(Sequence(d, k))}

\* the scenarios that start in the experiment
ScenariosOf(d, experiment_id) ==
    {k \in ScenarioIndexes(d) : d.scenarios[k].experiment_id = experiment_id}

Min(S) == CHOOSE k \in S : \A j \in S : k <= j

\* a payload that passes the creation validation and has an owning activity
ValidPayload(d, activity_execution) ==
    /\ activity_execution.activity_id \in {d.activities[i].id : i \in 1..Len(d.activities)}
    /\ activity_execution.arrangement_id \in d.arrangements \cup {None}

\* the ids of a sequence other than x, in their order
Others(s, x) == LET Keep(y) == y # x IN SelectSeq(s, Keep)

\* the scenarios other than the k-th are as they were
OthersUnchanged(d, e, k) ==
    /\ Len(e.scenarios) = Len(d.scenarios)
    /\ \A j \in ScenarioIndexes(d) : j # k => e.scenarios[j] = d.scenarios[j]

\* the id resolves to a scenario: it is an experiment some scenario starts in,
\* or a stored execution some scenario holds
ResolvesToScenario(d, id) ==
    \/ id \in d.experiments /\ ScenariosOf(d, id) # {}
    \/ id \notin d.experiments /\ id \in StoredIds(d) /\ ScenariosWith(d, id) # {}

(***************************************************************************)
(* C1  add_activity_execution(p, x), p an existing activity execution at   *)
(* index i of the sequence S of a scenario, x a payload whose execution is *)
(* created: afterwards that scenario's sequence is S with the id of the    *)
(* newly created execution inserted at index i + 1, nothing else moved or  *)
(* removed.                                                                *)
(***************************************************************************)
C1_InsertAfterExecution ==
    \A p \in StoredIds(db), x \in ActivityExecutionIn, k \in ScenarioIndexes(db) :
        LET S == Sequence(db, k)
            r == add_activity_execution(db, p, x)
        IN  \A i \in 1..Len(S) :
                (S[i] = p /\ ValidPayload(db, x)) =>
                    /\ r.ret.id \in StoredIds(r.db) \ CreatedIds(db)
                    /\ Sequence(r.db, k) =
                           SubSeq(S, 1, i) \o <<r.ret.id>> \o SubSeq(S, i + 1, Len(S))
                    /\ OthersUnchanged(db, r.db, k)

\* an add_activity_execution has put the newest execution between two
\* elements of a sequence, right after a stored execution
C1_Witness ==
    /\ last.op = "add_activity_execution"
    /\ \E k \in ScenarioIndexes(db) : \E i \in 2..(Len(Sequence(db, k)) - 1) :
           /\ Sequence(db, k)[i] = ActivityExecutionId(db.next_id - 1)
           /\ Sequence(db, k)[i] \in StoredIds(db)
           /\ Sequence(db, k)[i - 1] \in StoredIds(db)

(***************************************************************************)
(* C2  add_activity_execution(e, x), e an existing experiment that has a   *)
(* scenario, x a payload whose execution is created: the new execution id  *)
(* is inserted at index 0 of the sequence of the (first) scenario of e,    *)
(* in front of everything the sequence held.                               *)
(***************************************************************************)
C2_InsertAfterExperiment ==
    \A e \in db.experiments, x \in ActivityExecutionIn :
        LET r == add_activity_execution(db, e, x)
            k == Min(ScenariosOf(db, e))
        IN  (ScenariosOf(db, e) # {} /\ ValidPayload(db, x)) =>
                /\ r.ret.id \in StoredIds(r.db) \ CreatedIds(db)
                /\ Sequence(r.db, k) = <<r.ret.id>> \o Sequence(db, k)
                /\ OthersUnchanged(db, r.db, k)

\* an add_activity_execution has put the newest execution in front of a
\* non-empty sequence of a scenario that starts in an experiment
C2_Witness ==
    /\ last.op = "add_activity_execution"
    /\ \E k \in ScenarioIndexes(db) :
           /\ db.scenarios[k].experiment_id \in db.experiments
           /\ Len(Sequence(db, k)) >= 2
           /\ Sequence(db, k)[1] = ActivityExecutionId(db.next_id - 1)
           /\ Sequence(db, k)[1] \in StoredIds(db)

(***************************************************************************)
(* C3  The scenario service's delete_activity_execution(b), b an existing  *)
(* activity execution held by the sequence S of a scenario: afterwards the *)
(* sequence is S without b, the others in their order; the call returns    *)
(* the execution b, which is still stored.                                 *)
(***************************************************************************)
C3_RemoveFromScenario ==
    \A b \in StoredIds(db), k \in ScenarioIndexes(db) :
        LET S == Sequence(db, k)
            r == delete_activity_execution(db, b)
        IN  b \in Range(S) =>
                /\ Sequence(r.db, k) = Others(S, b)
                /\ Len(Sequence(r.db, k)) = Len(S) - 1
                /\ OthersUnchanged(db, r.db, k)
                /\ r.ret.kind = "ActivityExecutionOut" /\ r.ret.id = b
                /\ b \in StoredIds(r.db)

\* a delete_activity_execution has detached a stored execution: it is in
\* no sequence, and a sequence still holds two other elements
C3_Witness ==
    /\ last.op = "delete_activity_execution"
    /\ \E b \in StoredIds(db) : ScenariosWith(db, b) = {}
    /\ \E k \in ScenarioIndexes(db) : Len(Sequence(db, k)) >= 2

(***************************************************************************)
(* C4  change_order(x, p), x and p distinct ids of the sequence S of one   *)
(* scenario, p an existing activity execution: afterwards the sequence is  *)
(* a permutation of S, x is immediately after p, and the other elements    *)
(* keep their relative order.                                              *)
(***************************************************************************)
C4_ChangeOrder ==
    \A x \in RequestIds(db), p \in StoredIds(db), k \in ScenarioIndexes(db) :
        LET S == Sequence(db, k)
            r == change_order(db, [activity_execution_id |-> x, previous_id |-> p])
            T == Sequence(r.db, k)
        IN  (x # p /\ x \in Range(S) /\ p \in Range(S)) =>
                /\ Len(T) = Len(S)
                /\ Others(T, x) = Others(S, x)
                /\ \E i \in 1..(Len(T) - 1) : T[i] = p /\ T[i + 1] = x
                /\ OthersUnchanged(db, r.db, k)

\* a change_order has acted on a sequence of three stored executions, and
\* there is a reordering of it that moves its first element to the end
C4_Witness ==
    /\ last.op = "change_order"
    /\ \E k \in ScenarioIndexes(db) :
           LET S == Sequence(db, k)
           IN  /\ Len(S) = 3
               /\ Range(S) \subseteq StoredIds(db)
               /\ Sequence(change_order(db, [activity_execution_id |-> S[1],
                                             previous_id |-> S[3]]).db, k)
                      = <<S[2], S[3], S[1]>>

(***************************************************************************)
(* C5  change_order with activity_execution_id equal to previous_id        *)
(* returns a result that carries an error payload and writes nothing:      *)
(* every scenario sequence, and all of storage, is unchanged.              *)
(***************************************************************************)
C5_SelfReference ==
    \A x \in RequestIds(db) :
        LET r == change_order(db, [activity_execution_id |-> x, previous_id |-> x])
        IN  /\ r.ret.kind = "OrderChangeOut"
            /\ HasErrors(r.ret)
            /\ r.db = db

\* a change_order has acted and a sequence holds a stored execution, which
\* a self-referential request can name
C5_Witness ==
    /\ last.op = "change_order"
    /\ \E x \in StoredIds(db) :
           /\ ScenariosWith(db, x) # {}
           /\ HasErrors(change_order(db, [activity_execution_id |-> x,
                                          previous_id |-> x]).ret)

(***************************************************************************)
(* C6  add_activity_execution(previous_id, x) where previous_id resolves   *)
(* neither to an existing experiment nor to an existing activity execution *)
(* returns the NotFound result to the caller, and no scenario sequence is  *)
(* changed.                                                                *)
(***************************************************************************)
C6_UnresolvedPreviousIsNotFound ==
    \A previous_id \in RequestIds(db), x \in ActivityExecutionIn :
        LET r == add_activity_execution(db, previous_id, x)
        IN  (previous_id \notin db.experiments /\ previous_id \notin StoredIds(db)) =>
                /\ IsNotFound(r.ret)
                /\ AllSequences(r.db) = AllSequences(db)

(***************************************************************************)
(* C7  change_order(x, p) with no rollback: x an existing execution held   *)
(* by a scenario, p different from x and resolving to no scenario (unknown *)
(* id, or an experiment or execution assigned to no scenario): afterwards  *)
(* x is in no scenario's sequence while the execution x is still stored.   *)
(***************************************************************************)
C7_OrphanAfterFailedInsert ==
    \A x \in StoredIds(db), p \in RequestIds(db) :
        LET r == change_order(db, [activity_execution_id |-> x, previous_id |-> p])
        IN  (x # p /\ ScenariosWith(db, x) # {} /\ ~ResolvesToScenario(db, p)) =>
                /\ ScenariosWith(r.db, x) = {}
                /\ x \in StoredIds(r.db)
                /\ \A k \in ScenarioIndexes(db) : Sequence(r.db, k) = Others(Sequence(db, k), x)

\* a change_order has acted and left a stored execution in no sequence,
\* while a request naming an unknown previous id would orphan another one
C7_Witness ==
    /\ last.op = "change_order"
    /\ \E x \in StoredIds(db) : ScenariosWith(db, x) = {}
    /\ \E y \in StoredIds(db) :
           /\ ScenariosWith(db, y) # {}
           /\ ScenariosWith(change_order(db, [activity_execution_id |-> y,
                                              previous_id |-> UnknownId]).db, y) = {}

(***************************************************************************)
(* C8  Every failure of a step inside change_order is surfaced: whenever   *)
(* the remove step or the insert step returns NotFound, the result of      *)
(* change_order carries an error payload.                                  *)
(***************************************************************************)
C8_StepFailureSurfaced ==
    \A x \in RequestIds(db), p \in RequestIds(db) :
        LET removed == delete_activity_execution(db, x)
            inserted == _put_activity_execution_after_element(removed.db, p, x)
            r == change_order(db, [activity_execution_id |-> x, previous_id |-> p])
        IN  (x # p /\ (IsNotFound(removed.ret) \/ IsNotFound(inserted.ret))) =>
                (HasErrors(r.ret) \/ IsNotFound(r.ret))

(***************************************************************************)
(* C9  save_activity_execution with a non-null activity_id that resolves   *)
(* to no activity, or a non-null arrangement_id that resolves to no        *)
(* arrangement, returns an output carrying an error payload and creates no *)
(* document: storage is unchanged.                                         *)
(***************************************************************************)
C9_CreationValidation ==
    \A x \in ActivityExecutionIn :
        LET r == save_activity_execution(db, x)
            activity_missing == x.activity_id # None /\ IsNotFound(get_activity(db, x.activity_id))
            arrangement_missing ==
                x.arrangement_id # None /\ x.arrangement_id \notin db.arrangements
        IN  (activity_missing \/ arrangement_missing) =>
                /\ r.ret.kind = "ActivityExecutionOut"
                /\ HasErrors(r.ret)
                /\ r.ret.id = None
                /\ r.db = db

\* a save_activity_execution has acted with executions already stored, and
\* a payload with an existing activity and an unknown arrangement is refused
C9_Witness ==
    /\ last.op = "save_activity_execution"
    /\ StoredIds(db) # {}
    /\ HasErrors(save_activity_execution(
           db, [activity_id |-> <<"activity", 1>>, arrangement_id |-> UnknownId]).ret)

(***************************************************************************)
(* C10  get_single and get_single_dict, of the generic mixin and of the    *)
(* activity execution service: for an id that does not exist the result is *)
(* the NotFound sentinel carrying that id, whatever the depth and source,  *)
(* and no related-entity fetch was issued; for an id that exists the       *)
(* result is the entity with that id, never the sentinel.                  *)
(***************************************************************************)
C10_NotFoundSentinel ==
    /\ last.op \in {"activity_execution_get_single_dict", "get_activity_execution"} =>
           /\ IsNotFound(last.ret) <=> last.id \notin StoredIds(db)
           /\ last.ret.id = last.id
           /\ IsNotFound(last.ret) => last.fetches = <<>>
    /\ last.op \in {"get_single_dict", "get_measure"} =>
           /\ IsNotFound(last.ret) <=> last.id \notin MeasureIds(db)
           /\ last.ret.id = last.id
           /\ IsNotFound(last.ret) => last.fetches = <<>>

\* a read with the largest depth of an execution that was created and then
\* deleted has returned the sentinel, while another execution is stored
C10_Witness ==
    /\ last.op = "get_activity_execution"
    /\ last.depth = MaxDepth
    /\ last.id \in CreatedIds(db) \ StoredIds(db)
    /\ StoredIds(db) # {}
    /\ IsNotFound(last.ret)

(***************************************************************************)
(* C11  A read of a measure or of an activity execution (get_single,       *)
(* get_single_dict, get_multiple) with depth <= 0, whatever the source:    *)
(* every record returned is the stored record, field by field, none of the *)
(* keys time_series, measure_name, arrangement, experiments,               *)
(* participations, activity is added, and no related entity is fetched.    *)
(***************************************************************************)
RelationKeys ==
    {"time_series", "measure_name", "arrangement", "experiments", "participations",
     "activity"}

\* the returned record is the stored one, with no relation key
IsRaw(returned, stored) ==
    /\ DOMAIN returned \cap RelationKeys = {}
    /\ DOMAIN stored \subseteq DOMAIN returned
    /\ \A f \in DOMAIN stored : returned[f] = stored[f]

\* the stored executions, in the order get_multiple walks them
AllStoredExecutions(d) ==
    Flatten([i \in 1..Len(d.activities) |-> d.activities[i].activity_executions])

C11_DepthZeroIsRaw ==
    last.op \in {"activity_execution_get_single_dict", "get_activity_execution",
                 "get_single_dict", "get_measure",
                 "activity_execution_get_multiple", "measure_get_multiple"}
    /\ last.depth <= 0 =>
        /\ last.fetches = <<>>
        /\ last.op \in {"activity_execution_get_single_dict", "get_activity_execution"}
           /\ ~IsNotFound(last.ret) =>
               \E stored \in StoredExecutions(db) :
                   stored.id = last.id /\ IsRaw(last.ret, stored)
        /\ last.op \in {"get_single_dict", "get_measure"} /\ ~IsNotFound(last.ret) =>
               IsRaw(last.ret, get_document(db, last.id, Collections.MEASURE))
        /\ last.op = "activity_execution_get_multiple" =>
               /\ Len(last.ret.items) = Len(AllStoredExecutions(db))
               /\ \A i \in 1..Len(last.ret.items) :
                      IsRaw(last.ret.items[i], AllStoredExecutions(db)[i])
        /\ last.op = "measure_get_multiple" =>
               /\ Len(last.ret.items) = Len(db.measures)
               /\ \A i \in 1..Len(last.ret.items) :
                      IsRaw(last.ret.items[i], db.measures[i])

\* a read with depth 0 and a source tag has returned an execution that has
\* an arrangement, which a read with depth 1 would expand
C11_Witness ==
    /\ last.op = "get_activity_execution"
    /\ last.depth = 0
    /\ last.source = Collections.ACTIVITY
    /\ ~IsNotFound(last.ret)
    /\ last.ret.arrangement_id \in db.arrangements
    /\ "arrangement" \in DOMAIN get_activity_execution(db, last.id, 1, "").ret

(***************************************************************************)
(* C12  A scenario read with depth 0 (get_scenario,                        *)
(* get_scenario_by_experiment, get_scenario_by_activity_execution) that    *)
(* finds a scenario returns it with activity_executions equal to the       *)
(* stored list of ids and the experiment as the raw experiment_id: no      *)
(* experiment object is attached and no related entity is fetched.         *)
(***************************************************************************)
C12_ScenarioDepthZeroIsRaw ==
    \A element_id \in RequestIds(db) :
        (last.op \in ScenarioReads /\ last.depth = 0) =>
            LET r == ScenarioRead(db, last.op, element_id, 0)
            IN  ~IsNotFound(r.ret) =>
                    /\ r.fetches = <<>>
                    /\ "experiment" \notin DOMAIN r.ret
                    /\ r.ret.activity_executions =
                           get_scenario_dict_by_scenario_id(db, r.ret.id).activity_executions

(***************************************************************************)
(* C13  A read of a stored activity execution with depth D > 0 and source  *)
(* tag s never adds the relation s names: no 'activity' key with source    *)
(* activity, no 'arrangement' key with source arrangement, no              *)
(* 'participations' key with source participation, no 'experiments' key    *)
(* with source experiment.  Every other relation is added when it applies: *)
(* the activity and the participations always, the arrangement when        *)
(* arrangement_id is set, the experiments when a scenario holds the        *)
(* execution.                                                              *)
(***************************************************************************)
C13_SourceIsNotExpanded ==
    \A doc \in StoredExecutions(db), source \in ActivityExecutionSources :
        (last.op = "get_activity_execution" /\ last.depth > 0) =>
            LET keys == DOMAIN get_activity_execution(db, doc.id, last.depth, source).ret
            IN  /\ "activity" \in keys <=> source # Collections.ACTIVITY
                /\ "arrangement" \in keys <=>
                       (source # Collections.ARRANGEMENT /\ doc.arrangement_id # None)
                /\ "participations" \in keys <=> source # Collections.PARTICIPATION
                /\ "experiments" \in keys <=>
                       (source # Collections.EXPERIMENT /\ ScenariosWith(db, doc.id) # {})

\* a read with depth > 0 has acted where an execution has an arrangement, a
\* participation and a scenario: read with source activity it gets the other
\* three relations and no activity
C13_Witness ==
    /\ last.op = "get_activity_execution" /\ last.depth > 0 /\ last.found
    /\ \E doc \in StoredExecutions(db) :
           /\ doc.arrangement_id # None
           /\ ScenariosWith(db, doc.id) # {}
           /\ \E i \in 1..Len(db.participations) :
                  db.participations[i].activity_execution_id = doc.id
           /\ DOMAIN get_activity_execution(db, doc.id, last.depth, Collections.ACTIVITY).ret
                  \cap RelationKeys = {"arrangement", "participations", "experiments"}

(***************************************************************************)
(* C14  A read of a stored measure with depth D > 0: the key time_series   *)
(* is added unless the source is time series, and it holds exactly the     *)
(* time series whose measure_id is the id of the measure; the key          *)
(* measure_name is added unless the source is measure name or              *)
(* measure_name_id is null, and it holds the measure name with that id;    *)
(* both related fetches are requested with source = measure.               *)
(***************************************************************************)
C14_MeasureExpansion ==
    (last.op \in {"get_single_dict", "get_measure"} /\ last.depth > 0
     /\ ~IsNotFound(last.ret)) =>
        LET stored == get_document(db, last.id, Collections.MEASURE)
            Points(doc) == doc.measure_id = last.id
            pointing == SelectSeq(db.time_series, Points)
        IN  /\ "time_series" \in DOMAIN last.ret <=> last.source # Collections.TIME_SERIES
            /\ "time_series" \in DOMAIN last.ret =>
                   /\ Len(last.ret.time_series) = Len(pointing)
                   /\ \A i \in 1..Len(pointing) :
                          /\ last.ret.time_series[i].id = pointing[i].id
                          /\ last.ret.time_series[i].source = Collections.MEASURE
            /\ "measure_name" \in DOMAIN last.ret <=>
                   (last.source # Collections.MEASURE_NAME /\ stored.measure_name_id # None)
            /\ "measure_name" \in DOMAIN last.ret =>
                   /\ last.ret.measure_name.id = stored.measure_name_id
                   /\ last.ret.measure_name.source = Collections.MEASURE
            /\ \A i \in 1..Len(last.fetches) : last.fetches[i].source = Collections.MEASURE

\* a read with depth > 0 has returned a measure with its measure name and
\* with one time series, while another time series points at no measure
C14_Witness ==
    /\ last.op = "get_measure" /\ last.depth > 0
    /\ ~IsNotFound(last.ret)
    /\ "measure_name" \in DOMAIN last.ret
    /\ "time_series" \in DOMAIN last.ret
    /\ Len(last.ret.time_series) = 1
    /\ Len(db.time_series) = 2

(***************************************************************************)
(* C15  Every fetch issued while a read with depth D expands its entity is *)
(* requested with a depth below D, and the entities the read attaches      *)
(* directly (one hop below the root) were requested with depth exactly     *)
(* D - 1: the activity, the arrangement and the participations of an       *)
(* execution, the scenarios and experiments reached from it, and the       *)
(* executions and the experiment of a scenario.                            *)
(***************************************************************************)
C15_DepthDecrement ==
    /\ \A id \in StoredIds(db) :
           (last.op = "get_activity_execution" /\ last.depth > 0) =>
               LET r == get_activity_execution(db, id, last.depth, "")
               IN  /\ \A i \in 1..Len(r.fetches) : r.fetches[i].depth < last.depth
                   /\ r.ret.activity.depth = last.depth - 1
                   /\ "arrangement" \in DOMAIN r.ret =>
                          r.ret.arrangement.depth = last.depth - 1
                   /\ \A i \in 1..Len(r.ret.participations) :
                          r.ret.participations[i].depth = last.depth - 1
                   /\ "experiments" \in DOMAIN r.ret =>
                          \A i \in 1..Len(r.ret.experiments) :
                              r.ret.experiments[i].depth = last.depth - 1
    /\ \A element_id \in RequestIds(db) :
           last.op \in ScenarioReads =>
               LET r == ScenarioRead(db, last.op, element_id, last.depth)
               IN  \A i \in 1..Len(r.fetches) : r.fetches[i].depth = last.depth - 1

(***************************************************************************)
(* C16  Every read with depth D ends, also on the cycle execution ->       *)
(* scenario -> execution that no source tag suppresses, and the entities   *)
(* nested in what it returns are at most D hops below the root (none when  *)
(* D <= 0).                                                                *)
(***************************************************************************)
\* the hops from a returned execution down to its deepest attached entity
ExecutionNesting(execution) == IF DOMAIN execution \cap RelationKeys = {} THEN 0 ELSE 1

\* the hops from a returned scenario down to its deepest attached entity
ScenarioNesting(scenario) ==
    IF "experiment" \notin DOMAIN scenario /\ scenario.activity_executions = <<>>
    THEN 0
    ELSE 1 + CHOOSE n \in 0..1 :
                 /\ \A i \in 1..Len(scenario.activity_executions) :
                        ExecutionNesting(scenario.activity_executions[i]) <= n
                 /\ n = 0 \/ \E i \in 1..Len(scenario.activity_executions) :
                                 ExecutionNesting(scenario.activity_executions[i]) = 1

C16_ReadsEndWithinDepth ==
    /\ \A id \in StoredIds(db), source \in ActivityExecutionSources :
           last.op = "get_activity_execution" =>
               LET r == get_activity_execution(db, id, last.depth, source)
               IN  /\ Len(r.fetches) >= 0
                   /\ ExecutionNesting(r.ret) <= Max(last.depth, 0)
    /\ \A element_id \in RequestIds(db) :
           last.op \in ScenarioReads =>
               LET r == ScenarioRead(db, last.op, element_id, last.depth)
               IN  /\ Len(r.fetches) >= 0
                   /\ ~IsNotFound(r.ret) => ScenarioNesting(r.ret) <= Max(last.depth, 0)

ExpansionReads == ScenarioReads \cup {"get_activity_execution", "activity_execution_get_multiple"}

C19_DeleteConfirmsExistence ==
    last.op = "delete_measure" =>
        IF last.existed
        THEN /\ ~IsNotFound(last.ret)
             /\ last.ret.id = last.id
             /\ last.calls = <<last.ret>>
             /\ IsNotFound(get_single(db, last.id, 0, "").ret)
        ELSE /\ IsNotFound(last.ret)
             /\ last.calls = <<>>
             /\ ~last.changed

(***************************************************************************)
(* C20  update of an id that does not exist returns the NotFound sentinel  *)
(* and issues no write to the storage; update of an existing id persists   *)
(* the replacement and returns the entity as fetched again after the       *)
(* write, equal to a following get_single of the id at depth 0.            *)
(***************************************************************************)
C20_UpdateConfirmsExistence ==
    last.op = "update" =>
        IF last.existed
        THEN /\ Len(last.calls) = 1
             /\ last.calls[1].id = last.id
             /\ get_document(db, last.id, Collections.MEASURE).measure_name_id =
                    last.calls[1].updated_object.measure_name_id
             /\ last.ret = get_single(db, last.id, 0, "").ret
             /\ ~IsNotFound(last.ret)
        ELSE /\ IsNotFound(last.ret)
             /\ last.ret.id = last.id
             /\ last.calls = <<>>
             /\ ~last.changed

C20_Witness ==
    /\ last.op = "update"
    /\ last.existed
    /\ last.changed
    /\ last.ret.measure_name_id # None

(***************************************************************************)
(* C21  update_activity_execution and update_measure called with an id     *)
(* that does not exist return the NotFound sentinel and issue no write:    *)
(* no update call to the activity service or to the storage.               *)
(***************************************************************************)
C21_PropertyUpdateOfAbsentId ==
    (last.op \in {"update_activity_execution", "update_measure"} /\ ~last.existed) =>
        /\ IsNotFound(last.ret)
        /\ last.calls = <<>>
        /\ ~last.changed

(***************************************************************************)
(* C22  update_activity_execution_relationships returns NotFound when the  *)
(* execution does not exist; an error result when activity_id names no     *)
(* activity, null included; an error result when arrangement_id is not     *)
(* null and names no arrangement, but none when it is null.  In these      *)
(* cases no write is issued and the storage is unchanged.  When every      *)
(* check passes, and only then, the merged record is written.              *)
(***************************************************************************)
\* the stored execution with this id
StoredExecution(d, id) == CHOOSE doc \in StoredExecutions(d) : doc.id = id

C22_RelationshipsRevalidated ==
    last.op = "update_activity_execution_relationships" =>
        LET relations == last.request
            activity_ok == \E i \in 1..Len(db.activities) :
                               db.activities[i].id = relations.activity_id
            arrangement_ok == relations.arrangement_id = None
                              \/ relations.arrangement_id \in db.arrangements
        IN  IF ~last.existed
            THEN IsNotFound(last.ret) /\ last.calls = <<>> /\ ~last.changed
            ELSE IF ~(activity_ok /\ arrangement_ok)
            THEN /\ ~IsNotFound(last.ret)
                 /\ HasErrors(last.ret)
                 /\ last.calls = <<>>
                 /\ ~last.changed
            ELSE /\ ~HasErrors(last.ret)
                 /\ Len(last.calls) = 1
                 /\ last.calls[1].id = last.id
                 /\ StoredExecution(db, last.id).activity_id = relations.activity_id
                 /\ StoredExecution(db, last.id).arrangement_id = relations.arrangement_id

C22_Witness ==
    /\ last.op = "update_activity_execution_relationships"
    /\ last.existed
    /\ last.changed
    /\ last.request.arrangement_id = None
    /\ StoredExecution(db, last.id).arrangement_id = None

(***************************************************************************)
(* C23  update_measure_relationships of an existing measure: when the      *)
(* supplied measure_name_id is not null and names no measure name, an      *)
(* error result is returned and the stored measure is unchanged;           *)
(* otherwise the stored measure_name_id becomes the supplied value (null   *)
(* clears the relation), every other stored field keeps its value and the  *)
(* result equals a following get_measure.  Of a measure that does not      *)
(* exist it returns NotFound and writes nothing.                           *)
(***************************************************************************)
C23_MeasureRelationshipsReplaced ==
    last.op = "update_measure_relationships" =>
        LET supplied == last.request.measure_name_id
        IN  IF ~last.existed
            THEN IsNotFound(last.ret) /\ last.calls = <<>> /\ ~last.changed
            ELSE IF supplied # None /\ supplied \notin db.measure_names
            THEN /\ ~IsNotFound(last.ret)
                 /\ HasErrors(last.ret)
                 /\ last.calls = <<>>
                 /\ StoredMeasure(db, last.id) = last.before
                 /\ ~last.changed
            ELSE /\ StoredMeasure(db, last.id) =
                        [last.before EXCEPT !.measure_name_id = supplied]
                 /\ Len(last.calls) = 1
                 /\ ~HasErrors(last.ret)
                 /\ last.ret = get_measure(db, last.id, 0, "").ret

C23_Witness ==
    /\ last.op = "update_measure_relationships"
    /\ last.existed
    /\ last.request.measure_name_id = None
    /\ last.before.measure_name_id # None
    /\ last.before.datatype = "changed"
    /\ StoredMeasure(db, last.id).measure_name_id = None

(***************************************************************************)
(* C24  save_scenario creates one activity execution per payload, in       *)
(* payload order, before it creates the scenario document, and the         *)
(* persisted sequence of the new scenario is the list of the ids of those  *)
(* executions in that order: as long as the payload list, every element    *)
(* the id of an existing execution.                                        *)
(***************************************************************************)
C24_ScenarioHoldsCreatedIds ==
    \A experiment_id \in ExperimentIds \cup {None}, payloads \in PayloadLists(MaxPayloads) :
        LET r == save_scenario(db, [experiment_id |-> experiment_id,
                                    activity_executions |-> payloads])
            stored == Sequence(r.db, Len(r.db.scenarios))
        IN  /\ Len(r.db.scenarios) = Len(db.scenarios) + 1
            /\ Len(stored) = Len(payloads)
            /\ StoredIds(r.db) \ StoredIds(db) = Range(stored)
            /\ \A i \in 1..Len(stored) : stored[i] = ActivityExecutionId(db.next_id + i - 1)
            /\ \A i \in 1..Len(stored) : stored[i] = r.ret.activity_executions[i].id

(***************************************************************************)
(* C25  In every state reached by save_scenario, add_activity_execution,   *)
(* the scenario service's delete_activity_execution, change_order and the  *)
(* scenario reads, every persisted scenario document holds its executions  *)
(* as a list of bare identifiers and its experiment as an identifier: the  *)
(* execution objects and the experiment object that a read attaches are    *)
(* never written back.                                                     *)
(***************************************************************************)
\* an identifier, or null, is a pair; an entity is a record of at least three
\* fields
IsIdentifier(x) == Cardinality(DOMAIN x) = 2

C26_UnknownExperimentCreatesNothing ==
    \A experiment_id \in RequestIds(db) \ db.experiments,
       payloads \in PayloadLists(MaxPayloads) :
        LET r == save_scenario(db, [experiment_id |-> experiment_id,
                                    activity_executions |-> payloads])
        IN  /\ r.ret.kind = "ScenarioOut"
            /\ HasErrors(r.ret)
            /\ r.db.scenarios = db.scenarios
            /\ StoredExecutions(r.db) = StoredExecutions(db)
            /\ r.db = db

\* a save_scenario has acted and there is no scenario document: the request
\* was refused; executions are already stored
C26_Witness ==
    /\ last.op = "save_scenario"
    /\ db.scenarios = <<>>
    /\ StoredIds(db) # {}

(***************************************************************************)
(* C27  The scenario service's delete_activity_execution of an execution   *)
(* that is in no scenario's sequence, whether the execution entity exists  *)
(* or not, returns the NotFound result and modifies no scenario document.  *)
(***************************************************************************)
C27_DeleteOfUnassignedIsNotFound ==
    \A x \in RequestIds(db) :
        ScenariosWith(db, x) = {} =>
            LET r == delete_activity_execution(db, x)
            IN  /\ IsNotFound(r.ret)
                /\ r.ret.id = x
                /\ r.db.scenarios = db.scenarios

\* a delete_activity_execution has acted with no scenario stored, so what it
\* was asked to remove was in no sequence; stored executions exist, and
\* ids that no execution carries
C27_Witness ==
    /\ last.op = "delete_activity_execution"
    /\ db.scenarios = <<>>
    /\ StoredIds(db) # {}
    /\ CreatedIds(db) \ StoredIds(db) # {}

Occurrences(s, x) == Cardinality({i \in 1..Len(s) : s[i] = x})

C29_ExecutionInOneScenarioOnce ==
    \A id \in CreatedIds(db) :
        /\ Cardinality(ScenariosWith(db, id)) <= 1
        /\ \A k \in ScenarioIndexes(db) : Occurrences(Sequence(db, k), id) <= 1

\* a change_order has acted, two scenarios hold executions, and all created
\* executions are held
C29_Witness ==
    /\ last.op = "change_order"
    /\ Len(db.scenarios) = 2
    /\ \A k \in ScenarioIndexes(db) : Range(Sequence(db, k)) \cap CreatedIds(db) # {}
    /\ \A id \in CreatedIds(db) : ScenariosWith(db, id) # {}
    /\ Cardinality(CreatedIds(db)) = MaxExecutions

(***************************************************************************)
(* C30  When two add_activity_execution requests whose calls take turns    *)
(* have both ended, both found the same scenario and both created an       *)
(* execution, the persisted sequence of that scenario holds both new ids:  *)
(* no insertion is lost.                                                   *)
(***************************************************************************)
\* the persisted sequence of the scenario with the id
SequenceOf(d, scenario_id) ==
    get_scenario_dict_by_scenario_id(d, scenario_id).activity_executions

C30_NoInsertionLost ==
    LET first == last.requests["first"]
        second == last.requests["second"]
    IN  (/\ first.pc = "done"
         /\ second.pc = "done"
         /\ ~IsNotFound(first.scenario)
         /\ first.scenario.id = second.scenario.id
         /\ first.new_activity_execution_id # None
         /\ second.new_activity_execution_id # None)
        => {first.new_activity_execution_id, second.new_activity_execution_id}
               \subseteq Range(SequenceOf(db, first.scenario.id))

(***************************************************************************)
(* C31  In every state reached by the operations of the scenario service   *)
(* and of the activity-execution service, its own delete_activity_execution*)
(* among them, every id in the persisted sequence of a scenario is the id  *)
(* of an activity execution that is stored: no scenario keeps a dangling   *)
(* or a null id.                                                           *)
(***************************************************************************)
C31_SequencesHoldStoredIds ==
    \A k \in ScenarioIndexes(db) : Range(Sequence(db, k)) \subseteq StoredIds(db)

(***************************************************************************)
(* C32  In every reachable state, add_activity_execution with a payload    *)
(* that fails the validation of the creation (its activity or its          *)
(* arrangement resolves to nothing, so that no execution is created)       *)
(* leaves the sequence of every scenario as it was, for every previous_id, *)
(* also one that resolves to a scenario.                                   *)
(***************************************************************************)
C32_FailedCreationInsertsNothing ==
    \A previous_id \in RequestIds(db), activity_execution \in Payloads :
        LET r == add_activity_execution(db, previous_id, activity_execution)
        IN  ~ValidPayload(db, activity_execution)
                => AllSequences(r.db) = AllSequences(db)

====
